---- MODULE Spec2Model ----
(***************************************************************************)
(* utask: a task store on two NATS JetStream key-value buckets (tasks and  *)
(* tags).  The model covers the normalizer, the prefix resolver and the    *)
(* entity/index store; every substrate call of a store operation is one    *)
(* step of the client that runs it.                                        *)
(***************************************************************************)
EXTENDS Integers, Sequences, FiniteSets, TLC

VARIABLES
    tasksKV,  \* tasks bucket: key -> [val |-> Task, rev |-> revision]
    tagsKV,   \* tags bucket: key -> [val |-> string, rev |-> revision]
    seqT,     \* last stream sequence of the tasks bucket
    seqG,     \* last stream sequence of the tags bucket
    pc,       \* per client: position inside the running operation
    frame,    \* per client: arguments and locals of the running operation
    ret,      \* per client: what the finished operation returned
    prev,     \* the operation that returned last (history)
    conc,     \* per client: operations of others that overlapped the running one (history)
    fnIn,     \* input of the pure function under check
    fnOut,    \* its output
    tagsDown  \* the tags bucket is unreachable: every call on it fails

vars == <<tasksKV, tagsKV, seqT, seqG, pc, frame, ret, prev, conc, fnIn, fnOut, tagsDown>>

storeVars == <<tasksKV, tagsKV, seqT, seqG, pc, frame, ret, prev, conc, tagsDown>>

(***************************************************************************)
(* Strings are sequences of one-character strings.                         *)
(***************************************************************************)

\* the characters of texts and tags, in byte order; "U+FFFD" is the
\* replacement character, "0xFE" and "0xFF" are bytes that are not UTF-8
Chars == <<"\n", " ", "A", "B", "a", "b", "c", "x", "y", "U+FFFD", "0xFE", "0xFF">>

InvalidBytes == {"0xFE", "0xFF"}

Ord(ch) == CHOOSE i \in 1..Len(Chars) : Chars[i] = ch

HexDigits == <<"0", "1", "2", "3", "4", "5", "6", "7", "8", "9", "a", "b", "c", "d", "e", "f">>

IsSpace(ch) == ch \in {" ", "\n", "\t"}

RECURSIVE TrimLeft(_)
TrimLeft(s) ==
    IF s # <<>> /\ IsSpace(Head(s)) THEN TrimLeft(Tail(s)) ELSE s

RECURSIVE TrimRight(_)
TrimRight(s) ==
    IF s # <<>> /\ IsSpace(s[Len(s)]) THEN TrimRight(SubSeq(s, 1, Len(s) - 1)) ELSE s

\* strings.TrimSpace
TrimSpace(s) == TrimRight(TrimLeft(s))

LowerCh(ch) == IF ch = "A" THEN "a" ELSE IF ch = "B" THEN "b" ELSE ch

\* strings.ToLower; a string with a byte outside ASCII goes through
\* strings.Map, which writes the replacement character for an invalid byte
ToLower(s) ==
    [i \in 1..Len(s) |-> IF s[i] \in InvalidBytes THEN "U+FFFD" ELSE LowerCh(s[i])]

\* strings.HasPrefix
HasPrefix(s, p) == Len(p) <= Len(s) /\ SubSeq(s, 1, Len(p)) = p

\* strings.Split(s, "\n"): the pieces between the separators, <<"">> for ""
RECURSIVE SplitFrom(_, _)
SplitFrom(s, cur) ==
    IF s = <<>> THEN <<cur>>
    ELSE IF Head(s) = "\n" THEN <<cur>> \o SplitFrom(Tail(s), <<>>)
    ELSE SplitFrom(Tail(s), Append(cur, Head(s)))

SplitLines(s) == SplitFrom(s, <<>>)

\* strings.Join(lines, "\n")
RECURSIVE JoinLines(_)
JoinLines(lines) ==
    IF lines = <<>> THEN <<>>
    ELSE IF Len(lines) = 1 THEN lines[1]
    ELSE lines[1] \o <<"\n">> \o JoinLines(Tail(lines))

\* byte-wise string order, as sort.Strings compares
RECURSIVE StrLess(_, _)
StrLess(a, b) ==
    IF b = <<>> THEN FALSE
    ELSE IF a = <<>> THEN TRUE
    ELSE IF Head(a) = Head(b) THEN StrLess(Tail(a), Tail(b))
    ELSE Ord(Head(a)) < Ord(Head(b))

RECURSIVE InsertSorted(_, _)
InsertSorted(sorted, x) ==
    IF sorted = <<>> THEN <<x>>
    ELSE IF StrLess(x, Head(sorted)) THEN <<x>> \o sorted
    ELSE <<Head(sorted)>> \o InsertSorted(Tail(sorted), x)

RECURSIVE SortStrings(_)
SortStrings(l) ==
    IF l = <<>> THEN <<>> ELSE InsertSorted(SortStrings(SubSeq(l, 1, Len(l) - 1)), l[Len(l)])

Range(l) == {l[i] : i \in 1..Len(l)}

Contains(l, x) == \E i \in 1..Len(l) : l[i] = x

(***************************************************************************)
(* Normalizer                                                              *)
(***************************************************************************)

\* NormTagsFrom without the lowercasing
RECURSIVE NormTagsFromCased(_, _)
NormTagsFromCased(tags, out) ==
    IF tags = <<>> THEN out
    ELSE LET t == TrimSpace(Head(tags))
         IN  IF t = <<>> \/ Contains(out, t)
             THEN NormTagsFromCased(Tail(tags), out)
             ELSE NormTagsFromCased(Tail(tags), Append(out, t))

\* the tag loop shared by NormalizeInput, UpdateTask and Query:
\* lowercase, trim, drop empties, keep the first of equal tags
RECURSIVE NormTagsFrom(_, _)
NormTagsFrom(tags, out) ==
    IF tags = <<>> THEN out
    ELSE LET t == ToLower(TrimSpace(Head(tags)))
         IN  IF t = <<>> \/ Contains(out, t)
             THEN NormTagsFrom(Tail(tags), out)
             ELSE NormTagsFrom(Tail(tags), Append(out, t))

NormTags(tags) == NormTagsFrom(tags, <<>>)

\* the byte that stands for the escape \ufffd in the JSON text
ReplacementEscape == Len(Chars) + 1

\* json.Marshal of a string: the string coerced to valid UTF-8, every
\* invalid byte written as the escape \ufffd (a replacement character of
\* the string itself is written as it is)
JSONString(str) ==
    [i \in 1..Len(str) |-> IF str[i] \in InvalidBytes THEN ReplacementEscape ELSE Ord(str[i])]

\* json.Marshal of the canonical struct, as bytes: the text, a terminator,
\* every tag with its terminator, a terminator, priority, estimate
RECURSIVE TagBytes(_)
TagBytes(tags) ==
    IF tags = <<>> THEN <<0>>
    ELSE JSONString(Head(tags)) \o <<0>> \o TagBytes(Tail(tags))

CanonicalJSON(c) ==
    JSONString(c.text) \o <<0>> \o TagBytes(c.tags) \o <<c.priority, c.est>>

\* hex of sha512: a collision-free digest, one hex digit per byte
Sha512Hex(b) == [i \in 1..Len(b) |-> HexDigits[b[i] + 1]]

\* spaceRe.ReplaceAllString(s, " "): every run of white space becomes one space
RECURSIVE CollapseSpace(_)
CollapseSpace(str) ==
    IF str = <<>> THEN <<>>
    ELSE IF IsSpace(Head(str))
         THEN IF Len(str) > 1 /\ IsSpace(str[2]) THEN CollapseSpace(Tail(str))
              ELSE <<" ">> \o CollapseSpace(Tail(str))
         ELSE <<Head(str)>> \o CollapseSpace(Tail(str))

\* NormalizeInput that also collapses the white space inside the text
NormalizeInputCollapsed(in) ==
    LET c == [text |-> CollapseSpace(TrimSpace(in.text)), tags |-> SortStrings(NormTags(in.tags)),
              priority |-> in.priority, est |-> in.est]
    IN  [c |-> c, id |-> Sha512Hex(CanonicalJSON(c))]

\* NormalizeInput without the sort
NormalizeInputUnsorted(in) ==
    LET c == [text |-> TrimSpace(in.text), tags |-> NormTags(in.tags),
              priority |-> in.priority, est |-> in.est]
    IN  [c |-> c, id |-> Sha512Hex(CanonicalJSON(c))]

NormalizeInput(in) ==
    LET c == [text |-> TrimSpace(in.text), tags |-> SortStrings(NormTags(in.tags)),
              priority |-> in.priority, est |-> in.est]
    IN  [c |-> c, id |-> Sha512Hex(CanonicalJSON(c))]

(***************************************************************************)
(* Prefix resolver                                                         *)
(***************************************************************************)

RECURSIVE Matches(_, _)
Matches(keys, prefix) ==
    IF keys = <<>> THEN <<>>
    ELSE IF HasPrefix(Head(keys), prefix) THEN <<Head(keys)>> \o Matches(Tail(keys), prefix)
    ELSE Matches(Tail(keys), prefix)

NoErr == "nil"

\* matchPrefix that takes the first match
matchPrefixFirst(keys, prefix) ==
    LET matches == Matches(keys, prefix)
    IN  IF Len(matches) = 0 THEN [id |-> <<>>, cands |-> <<>>, err |-> "not found"]
        ELSE [id |-> matches[1], cands |-> <<>>, err |-> NoErr]

matchPrefix(keys, prefix) ==
    LET matches == Matches(keys, prefix)
    IN  IF Len(matches) = 0 THEN [id |-> <<>>, cands |-> <<>>, err |-> "not found"]
        ELSE IF Len(matches) = 1 THEN [id |-> matches[1], cands |-> <<>>, err |-> NoErr]
        ELSE [id |-> <<>>, cands |-> matches, err |-> "ambiguous"]

(***************************************************************************)
(* The substrate: a revisioned key-value bucket.  A write takes the next   *)
(* stream sequence of its bucket as the key's revision; a deleted key      *)
(* reads as absent.                                                        *)
(***************************************************************************)

\* writes each bucket accepts before the model stops
MaxSeqT == 3

MaxSeqG == 5

Clients == {"c1", "c2"}

KVHas(kv, k) == k \in DOMAIN kv

KVWrite(kv, k, v, s) ==
    [x \in (DOMAIN kv) \cup {k} |-> IF x = k THEN [val |-> v, rev |-> s] ELSE kv[x]]

KVRemove(kv, k) == [x \in (DOMAIN kv) \ {k} |-> kv[x]]

\* kv.Update(key, value, last): the write is accepted only at revision last
KVUpdateOK(kv, k, last) == KVHas(kv, k) /\ kv[k].rev = last

\* kv.Keys(): the live keys in stream order; the client library reports
\* ErrNoKeysFound for a bucket without live keys
RECURSIVE KeysOf(_, _)
KeysOf(kv, left) ==
    IF left = {} THEN <<>>
    ELSE LET k == CHOOSE x \in left : \A y \in left : kv[x].rev <= kv[y].rev
         IN  <<k>> \o KeysOf(kv, left \ {k})

KVKeys(kv) == KeysOf(kv, DOMAIN kv)

KVKeysErr(kv) == IF DOMAIN kv = {} THEN "nats: no keys found" ELSE NoErr

(***************************************************************************)
(* Store state of a client                                                 *)
(***************************************************************************)

NoTask == [id |-> <<>>, text |-> <<>>, done |-> FALSE, tags |-> <<>>, created |-> 0,
           priority |-> 0, est |-> 0]

NoRet == [task |-> NoTask, flag |-> FALSE, err |-> NoErr, id |-> <<>>, cands |-> <<>>,
          tasks |-> <<>>, counts |-> <<>>]

NoCall == [op |-> "none"]

EmptyFrame ==
    [call |-> NoCall, id |-> <<>>, t |-> NoTask, after |-> NoTask, rev |-> 0,
     todo |-> <<>>, erev |-> 0, newVal |-> <<>>, keys |-> <<>>, acc |-> <<>>,
     union |-> {}, out |-> <<>>, pend |-> NoRet,
     absent0 |-> FALSE, snapT |-> <<>>, snapG |-> <<>>, outage |-> FALSE, calls |-> 0]

\* a step of an operation makes one substrate call; calls counts them (history)
Finish(c, f, r) ==
    /\ pc' = [pc EXCEPT ![c] = "done"]
    /\ frame' = [frame EXCEPT ![c] = [f EXCEPT !.calls = @ + 1]]
    /\ ret' = [ret EXCEPT ![c] = r]

Goto(c, f, p) ==
    /\ pc' = [pc EXCEPT ![c] = p]
    /\ frame' = [frame EXCEPT ![c] = [f EXCEPT !.calls = @ + 1]]
    /\ UNCHANGED ret

\* the index updates an operation still has to make, then its return
IndexLoop(c, f) ==
    IF f.todo = <<>> THEN Finish(c, f, f.pend)
    ELSE Goto(c, f, IF Head(f.todo).kind = "add" THEN "append_get" ELSE "remove_get")

PopTodo(f) == [f EXCEPT !.todo = Tail(f.todo)]

InFlight(c) == pc[c] \notin {"idle", "done"}

FirstPc(call) ==
    CASE call.op = "create" -> "create_kv"
      [] call.op = "get" -> "get_kv"
      [] call.op = "update" -> "update_get"
      [] call.op = "delete" -> "delete_get"
      [] call.op = "close" -> "close_get"
      [] call.op = "reopen" -> "reopen_get"
      [] call.op = "list" -> "list_start"
      [] call.op = "query" -> IF NormTags(call.any) = <<>> THEN "query_keys" ELSE "query_any"
      [] call.op = "rebuild" -> "rebuild_keys"
      [] call.op = "listtags" -> "listtags_keys"
      [] call.op = "resolve" -> "resolve"

\* a client calls a store operation; snapT and snapG are the history the
\* call keeps of the buckets as they were
CallWith(c, call, snapT, snapG) ==
    /\ pc[c] = "idle"
    /\ pc' = [pc EXCEPT ![c] = FirstPc(call)]
    /\ frame' = [frame EXCEPT ![c] =
                   [EmptyFrame EXCEPT !.call = call,
                                      !.keys = IF call.op = "query" THEN NormTags(call.any)
                                               ELSE <<>>,
                                      !.absent0 = IF call.op = "create"
                                                  THEN ~KVHas(tasksKV, NormalizeInput(call.in).id)
                                                  ELSE FALSE,
                                      !.snapT = snapT, !.snapG = snapG,
                                      !.outage = tagsDown]]
    /\ conc' = [d \in Clients |->
                  IF d = c THEN {<<e, frame[e].call.op>> : e \in {x \in Clients \ {c} : InFlight(x)}}
                  ELSE IF InFlight(d) THEN conc[d] \cup {<<c, call.op>>}
                  ELSE conc[d]]
    /\ UNCHANGED <<tasksKV, tagsKV, seqT, seqG, ret, prev, fnIn, fnOut, tagsDown>>

Call(c, call) == CallWith(c, call, <<>>, <<>>)

\* a call whose history keeps the buckets as they were when it was made
CallObserved(c, call) == CallWith(c, call, tasksKV, tagsKV)

\* a finished operation hands its result to the caller
Return(c) ==
    /\ pc[c] = "done"
    /\ pc' = [pc EXCEPT ![c] = "idle"]
    /\ prev' = [call |-> frame[c].call, ret |-> ret[c], absent0 |-> frame[c].absent0]
    /\ frame' = [frame EXCEPT ![c] = EmptyFrame]
    /\ ret' = [ret EXCEPT ![c] = NoRet]
    /\ conc' = [conc EXCEPT ![c] = {}]
    /\ UNCHANGED <<tasksKV, tagsKV, seqT, seqG, fnIn, fnOut, tagsDown>>

(***************************************************************************)
(* Tag index maintenance                                                   *)
(***************************************************************************)

\* HasLine that never finds the id
HasLineNever(val, id) == FALSE

\* lines of an index value that hold id
HasLine(val, id) == \E i \in 1..Len(SplitLines(val)) : TrimSpace(SplitLines(val)[i]) = id

AppendedValue(val, id) == TrimSpace(JoinLines(Append(SplitLines(val), id)))

RECURSIVE KeepOthers(_, _)
KeepOthers(lines, id) ==
    IF lines = <<>> THEN <<>>
    ELSE IF TrimSpace(Head(lines)) = id \/ TrimSpace(Head(lines)) = <<>>
         THEN KeepOthers(Tail(lines), id)
         ELSE <<TrimSpace(Head(lines))>> \o KeepOthers(Tail(lines), id)

\* removeTagID that writes the entry back as it was
RemovedValueSame(val, id) == val

RemovedValue(val, id) == TrimSpace(JoinLines(KeepOthers(SplitLines(val), id)))

\* IndexFail that drops the error for every caller
IndexFailDropped(c, f, err) == IndexLoop(c, PopTodo(f))

\* appendTagID or removeTagID returns an error: CreateTask returns it,
\* UpdateTask and DeleteTask drop it and go on
IndexFail(c, f, err) ==
    IF f.call.op = "create" THEN Finish(c, f, [NoRet EXCEPT !.err = err])
    ELSE IndexLoop(c, PopTodo(f))

\* appendTagID: tagsKV.Get(tag)
appendTagID_Get(c) ==
    /\ pc[c] = "append_get"
    /\ LET f == frame[c]
           tag == Head(f.todo).tag
       IN  IF tagsDown THEN IndexFail(c, f, "get tag index")
           ELSE IF ~KVHas(tagsKV, tag) THEN Goto(c, f, "append_create")
           ELSE IF HasLine(tagsKV[tag].val, f.id) THEN IndexLoop(c, PopTodo(f))
           ELSE Goto(c, [f EXCEPT !.erev = tagsKV[tag].rev,
                                  !.newVal = AppendedValue(tagsKV[tag].val, f.id)],
                     "append_update")
    /\ UNCHANGED <<tasksKV, tagsKV, seqT, seqG, prev, conc, fnIn, fnOut, tagsDown>>

\* appendTagID: tagsKV.Create(tag, id).  The err of the Create is local to
\* its if statement, so the ErrKeyExists test that follows reads the err of
\* the Get (ErrKeyNotFound): on ErrKeyExists the routine returns nil
\* without calling itself again
appendTagID_Create(c) ==
    /\ pc[c] = "append_create"
    /\ LET f == frame[c]
           tag == Head(f.todo).tag
       IN  IF tagsDown
           THEN /\ IndexFail(c, f, "create tag index")
                /\ UNCHANGED <<tagsKV, seqG>>
           ELSE IF KVHas(tagsKV, tag)
           THEN /\ IndexLoop(c, PopTodo(f))
                /\ UNCHANGED <<tagsKV, seqG>>
           ELSE /\ seqG < MaxSeqG
                /\ tagsKV' = KVWrite(tagsKV, tag, f.id, seqG + 1)
                /\ seqG' = seqG + 1
                /\ IndexLoop(c, PopTodo(f))
    /\ UNCHANGED <<tasksKV, seqT, prev, conc, fnIn, fnOut, tagsDown>>

\* appendTagID that fetches the entry again after a failed Update
appendTagID_UpdateRetry(c) ==
    /\ pc[c] = "append_update"
    /\ LET f == frame[c]
           tag == Head(f.todo).tag
       IN  IF ~tagsDown /\ KVUpdateOK(tagsKV, tag, f.erev)
           THEN /\ seqG < MaxSeqG
                /\ tagsKV' = KVWrite(tagsKV, tag, f.newVal, seqG + 1)
                /\ seqG' = seqG + 1
                /\ IndexLoop(c, PopTodo(f))
           ELSE /\ UNCHANGED <<tagsKV, seqG>>
                /\ Goto(c, f, "append_get")
    /\ UNCHANGED <<tasksKV, seqT, prev, conc, fnIn, fnOut, tagsDown>>

\* appendTagID: tagsKV.Update(tag, newVal, e.Revision()); CreateTask returns
\* the error, UpdateTask drops it
appendTagID_Update(c) ==
    /\ pc[c] = "append_update"
    /\ LET f == frame[c]
           tag == Head(f.todo).tag
       IN  IF ~tagsDown /\ KVUpdateOK(tagsKV, tag, f.erev)
           THEN /\ seqG < MaxSeqG
                /\ tagsKV' = KVWrite(tagsKV, tag, f.newVal, seqG + 1)
                /\ seqG' = seqG + 1
                /\ IndexLoop(c, PopTodo(f))
           ELSE /\ UNCHANGED <<tagsKV, seqG>>
                /\ IndexFail(c, f, "update tag index")
    /\ UNCHANGED <<tasksKV, seqT, prev, conc, fnIn, fnOut, tagsDown>>

\* removeTagID: tagsKV.Get(tag)
removeTagID_Get(c) ==
    /\ pc[c] = "remove_get"
    /\ LET f == frame[c]
           tag == Head(f.todo).tag
       IN  IF tagsDown THEN IndexFail(c, f, "unavailable")
           ELSE IF ~KVHas(tagsKV, tag) THEN IndexLoop(c, PopTodo(f))
           ELSE Goto(c, [f EXCEPT !.erev = tagsKV[tag].rev,
                                  !.newVal = RemovedValue(tagsKV[tag].val, f.id)],
                     "remove_update")
    /\ UNCHANGED <<tasksKV, tagsKV, seqT, seqG, prev, conc, fnIn, fnOut, tagsDown>>

\* removeTagID: tagsKV.Update(tag, newVal, e.Revision()); every caller drops the error
removeTagID_Update(c) ==
    /\ pc[c] = "remove_update"
    /\ LET f == frame[c]
           tag == Head(f.todo).tag
       IN  IF ~tagsDown /\ KVUpdateOK(tagsKV, tag, f.erev)
           THEN /\ seqG < MaxSeqG
                /\ tagsKV' = KVWrite(tagsKV, tag, f.newVal, seqG + 1)
                /\ seqG' = seqG + 1
                /\ IndexLoop(c, PopTodo(f))
           ELSE /\ UNCHANGED <<tagsKV, seqG>>
                /\ IndexFail(c, f, "wrong last sequence")
    /\ UNCHANGED <<tasksKV, seqT, prev, conc, fnIn, fnOut, tagsDown>>

IndexOps(kind, tags) == [i \in 1..Len(tags) |-> [kind |-> kind, tag |-> tags[i]]]

(***************************************************************************)
(* Entity operations                                                       *)
(***************************************************************************)

Perms(S) == {p \in [1..Cardinality(S) -> S] : Range(p) = S}

\* CreateTask: NormalizeInput, then tasksKV.Create(id, b)
CreateTask(c) ==
    /\ pc[c] = "create_kv"
    /\ LET f == frame[c]
           n == NormalizeInput(f.call.in)
           t == [id |-> n.id, text |-> n.c.text, done |-> FALSE, tags |-> n.c.tags,
                 created |-> f.call.now, priority |-> n.c.priority, est |-> n.c.est]
       IN  IF KVHas(tasksKV, n.id)
           THEN /\ Goto(c, [f EXCEPT !.id = n.id, !.t = t], "create_get")
                /\ UNCHANGED <<tasksKV, seqT>>
           ELSE /\ seqT < MaxSeqT
                /\ tasksKV' = KVWrite(tasksKV, n.id, t, seqT + 1)
                /\ seqT' = seqT + 1
                /\ IndexLoop(c, [f EXCEPT !.id = n.id, !.t = t,
                                          !.todo = IndexOps("add", t.tags),
                                          !.pend = [NoRet EXCEPT !.task = t, !.flag = FALSE]])
    /\ UNCHANGED <<tagsKV, seqG, prev, conc, fnIn, fnOut, tagsDown>>

\* CreateTask_GetExisting returning the task it built instead of the stored one
CreateTask_ReturnBuilt(c) ==
    /\ pc[c] = "create_get"
    /\ LET f == frame[c]
       IN  IF KVHas(tasksKV, f.id)
           THEN Finish(c, f, [NoRet EXCEPT !.task = f.t, !.flag = TRUE])
           ELSE Finish(c, f, [NoRet EXCEPT !.err = "get existing"])
    /\ UNCHANGED <<tasksKV, tagsKV, seqT, seqG, prev, conc, fnIn, fnOut, tagsDown>>

\* CreateTask_GetExisting that goes on to index the tags of the task it built
CreateTask_Reindex(c) ==
    /\ pc[c] = "create_get"
    /\ LET f == frame[c]
       IN  IF KVHas(tasksKV, f.id)
           THEN IndexLoop(c, [f EXCEPT !.todo = IndexOps("add", f.t.tags),
                                      !.pend = [NoRet EXCEPT !.task = tasksKV[f.id].val,
                                                             !.flag = TRUE]])
           ELSE Finish(c, f, [NoRet EXCEPT !.err = "get existing"])
    /\ UNCHANGED <<tasksKV, tagsKV, seqT, seqG, prev, conc, fnIn, fnOut, tagsDown>>

\* CreateTask after ErrKeyExists: tasksKV.Get(id) of the existing entity
CreateTask_GetExisting(c) ==
    /\ pc[c] = "create_get"
    /\ LET f == frame[c]
       IN  IF KVHas(tasksKV, f.id)
           THEN Finish(c, f, [NoRet EXCEPT !.task = tasksKV[f.id].val, !.flag = TRUE])
           ELSE Finish(c, f, [NoRet EXCEPT !.err = "get existing"])
    /\ UNCHANGED <<tasksKV, tagsKV, seqT, seqG, prev, conc, fnIn, fnOut, tagsDown>>

\* GetTask called by a client: tasksKV.Get(id)
GetTask(c) ==
    /\ pc[c] = "get_kv"
    /\ LET f == frame[c]
           id == f.call.id
       IN  IF KVHas(tasksKV, id)
           THEN Finish(c, [f EXCEPT !.id = id, !.t = tasksKV[id].val, !.rev = tasksKV[id].rev],
                       [NoRet EXCEPT !.task = tasksKV[id].val])
           ELSE Finish(c, [f EXCEPT !.id = id], [NoRet EXCEPT !.err = "not found"])
    /\ UNCHANGED <<tasksKV, tagsKV, seqT, seqG, prev, conc, fnIn, fnOut, tagsDown>>

\* GetTaskStep that takes an absent key for an empty task
GetTaskStepAbsentOK(c, here, next) ==
    /\ pc[c] = here
    /\ LET f == frame[c]
           id == f.call.id
       IN  Goto(c, [f EXCEPT !.id = id,
                             !.t = IF KVHas(tasksKV, id) THEN tasksKV[id].val ELSE NoTask,
                             !.rev = IF KVHas(tasksKV, id) THEN tasksKV[id].rev ELSE 0], next)
    /\ UNCHANGED <<tasksKV, tagsKV, seqT, seqG, prev, conc, fnIn, fnOut, tagsDown>>

\* GetTask as the first call of UpdateTask, DeleteTask, CloseTask and ReopenTask
GetTaskStep(c, here, next) ==
    /\ pc[c] = here
    /\ LET f == frame[c]
           id == f.call.id
       IN  IF KVHas(tasksKV, id)
           THEN Goto(c, [f EXCEPT !.id = id, !.t = tasksKV[id].val, !.rev = tasksKV[id].rev], next)
           ELSE Finish(c, [f EXCEPT !.id = id], [NoRet EXCEPT !.err = "not found"])
    /\ UNCHANGED <<tasksKV, tagsKV, seqT, seqG, prev, conc, fnIn, fnOut, tagsDown>>

\* putTaskCAS: whether the write is accepted (tasksKV.Put takes no revision)
putTaskCASAccepts(kv, id, rev) == TRUE

\* putTaskCAS: the bucket after the write
putTaskCAS(kv, id, t, rev, s) == KVWrite(kv, id, t, s)

\* an UpdateTask that writes every field of the set, the unset ones as empty
ApplySetFull(before, set) ==
    [before EXCEPT
        !.text = IF set.text = <<>> THEN <<>> ELSE TrimSpace(set.text[1]),
        !.done = IF set.done = <<>> THEN FALSE ELSE set.done[1],
        !.tags = IF set.tags = <<>> THEN <<>> ELSE NormTags(set.tags[1]),
        !.priority = IF set.priority = <<>> THEN 0 ELSE set.priority[1],
        !.est = 0]

\* the sparse patch of UpdateTask
ApplySet(before, set) ==
    [before EXCEPT
        !.text = IF set.text = <<>> THEN @ ELSE TrimSpace(set.text[1]),
        !.done = IF set.done = <<>> THEN @ ELSE set.done[1],
        !.tags = IF set.tags = <<>> THEN @ ELSE NormTags(set.tags[1]),
        !.priority = IF set.priority = <<>> THEN @ ELSE set.priority[1]]

UpdateTask_Get(c) == GetTaskStep(c, "update_get", "update_put")

\* TagDiffOps without the removals
TagDiffOpsAddOnly(before, after) ==
    {IndexOps("add", adds) : adds \in Perms(Range(after.tags) \ Range(before.tags))}

\* the tag diff of UpdateTask: the index updates it makes, additions first,
\* each group in the order the map iteration happens to take
TagDiffOps(before, after) ==
    {IndexOps("add", adds) \o IndexOps("rm", rms) :
        adds \in Perms(Range(after.tags) \ Range(before.tags)),
        rms \in Perms(Range(before.tags) \ Range(after.tags))}

\* UpdateTask: the patch, putTaskCAS, then the tag diff
UpdateTask_Put(c) ==
    /\ pc[c] = "update_put"
    /\ LET f == frame[c]
           after == ApplySet(f.t, f.call.set)
       IN  IF putTaskCASAccepts(tasksKV, f.id, f.rev)
           THEN /\ seqT < MaxSeqT
                /\ tasksKV' = putTaskCAS(tasksKV, f.id, after, f.rev, seqT + 1)
                /\ seqT' = seqT + 1
                /\ \E ops \in TagDiffOps(f.t, after) :
                      IndexLoop(c, [f EXCEPT !.after = after, !.todo = ops,
                                             !.pend = [NoRet EXCEPT !.task = after]])
           ELSE /\ UNCHANGED <<tasksKV, seqT>>
                /\ Finish(c, f, [NoRet EXCEPT !.err = "wrong last sequence"])
    /\ UNCHANGED <<tagsKV, seqG, prev, conc, fnIn, fnOut, tagsDown>>

DeleteTask_Get(c) == GetTaskStep(c, "delete_get", "delete_kv")

\* DeleteTask_Delete that leaves the index alone
DeleteTask_DeleteOnly(c) ==
    /\ pc[c] = "delete_kv"
    /\ LET f == frame[c]
       IN  /\ seqT < MaxSeqT
           /\ tasksKV' = KVRemove(tasksKV, f.id)
           /\ seqT' = seqT + 1
           /\ Finish(c, f, [NoRet EXCEPT !.id = f.t.id])
    /\ UNCHANGED <<tagsKV, seqG, prev, conc, fnIn, fnOut, tagsDown>>

\* DeleteTask: tasksKV.Delete(id), then removeTagID for every tag
DeleteTask_Delete(c) ==
    /\ pc[c] = "delete_kv"
    /\ LET f == frame[c]
       IN  /\ seqT < MaxSeqT
           /\ tasksKV' = KVRemove(tasksKV, f.id)
           /\ seqT' = seqT + 1
           /\ IndexLoop(c, [f EXCEPT !.todo = IndexOps("rm", f.t.tags),
                                     !.pend = [NoRet EXCEPT !.id = f.t.id]])
    /\ UNCHANGED <<tagsKV, seqG, prev, conc, fnIn, fnOut, tagsDown>>

\* SetDone_Get without the early return
SetDone_GetAlways(c, here, next, target) ==
    /\ pc[c] = here
    /\ LET f == frame[c]
           id == f.call.id
       IN  IF ~KVHas(tasksKV, id)
           THEN Finish(c, [f EXCEPT !.id = id], [NoRet EXCEPT !.err = "not found"])
           ELSE Goto(c, [f EXCEPT !.id = id, !.t = tasksKV[id].val, !.rev = tasksKV[id].rev], next)
    /\ UNCHANGED <<tasksKV, tagsKV, seqT, seqG, prev, conc, fnIn, fnOut, tagsDown>>

\* CloseTask and ReopenTask: GetTask, return unchanged when done is the target
SetDone_Get(c, here, next, target) ==
    /\ pc[c] = here
    /\ LET f == frame[c]
           id == f.call.id
       IN  IF ~KVHas(tasksKV, id)
           THEN Finish(c, [f EXCEPT !.id = id], [NoRet EXCEPT !.err = "not found"])
           ELSE IF tasksKV[id].val.done = target
           THEN Finish(c, [f EXCEPT !.id = id, !.t = tasksKV[id].val, !.rev = tasksKV[id].rev],
                       [NoRet EXCEPT !.task = tasksKV[id].val, !.flag = FALSE])
           ELSE Goto(c, [f EXCEPT !.id = id, !.t = tasksKV[id].val, !.rev = tasksKV[id].rev], next)
    /\ UNCHANGED <<tasksKV, tagsKV, seqT, seqG, prev, conc, fnIn, fnOut, tagsDown>>

\* CloseTask and ReopenTask: set done, putTaskCAS
SetDone_Put(c, here, target) ==
    /\ pc[c] = here
    /\ LET f == frame[c]
           t == [f.t EXCEPT !.done = target]
       IN  IF putTaskCASAccepts(tasksKV, f.id, f.rev)
           THEN /\ seqT < MaxSeqT
                /\ tasksKV' = putTaskCAS(tasksKV, f.id, t, f.rev, seqT + 1)
                /\ seqT' = seqT + 1
                /\ Finish(c, [f EXCEPT !.after = t], [NoRet EXCEPT !.task = t, !.flag = TRUE])
           ELSE /\ UNCHANGED <<tasksKV, seqT>>
                /\ Finish(c, f, [NoRet EXCEPT !.err = "wrong last sequence"])
    /\ UNCHANGED <<tagsKV, seqG, prev, conc, fnIn, fnOut, tagsDown>>

CloseTask_Get(c) == SetDone_Get(c, "close_get", "close_put", TRUE)

CloseTask_Put(c) == SetDone_Put(c, "close_put", TRUE)

ReopenTask_Get(c) == SetDone_Get(c, "reopen_get", "reopen_put", FALSE)

ReopenTask_Put(c) == SetDone_Put(c, "reopen_put", FALSE)

(***************************************************************************)
(* Reads: List, Query, Resolve                                             *)
(***************************************************************************)

RECURSIVE NonEmptyTrimmed(_)
NonEmptyTrimmed(lines) ==
    IF lines = <<>> THEN <<>>
    ELSE IF TrimSpace(Head(lines)) = <<>> THEN NonEmptyTrimmed(Tail(lines))
    ELSE <<TrimSpace(Head(lines))>> \o NonEmptyTrimmed(Tail(lines))

\* the ids an index value lists, in order
IdLines(val) == NonEmptyTrimmed(SplitLines(val))

StatusKeeps(status, t) ==
    /\ ~(status = "open" /\ t.done)
    /\ ~(status = "closed" /\ ~t.done)

ListLoop(c, f) ==
    IF f.keys = <<>> THEN Finish(c, f, [NoRet EXCEPT !.tasks = f.out])
    ELSE Goto(c, f, "list_fetch")

\* List: tagsKV.Get of the tag's entry, or tasksKV.Keys() without a tag
List_Start(c) ==
    /\ pc[c] = "list_start"
    /\ LET f == frame[c]
           key == ToLower(TrimSpace(f.call.tag))
       IN  IF f.call.tag # <<>>
           THEN IF tagsDown THEN Finish(c, f, [NoRet EXCEPT !.err = "unavailable"])
                ELSE IF key = <<>> THEN Finish(c, f, [NoRet EXCEPT !.err = "nats: invalid key"])
                ELSE IF ~KVHas(tagsKV, key) THEN Finish(c, f, NoRet)
                ELSE ListLoop(c, [f EXCEPT !.keys = IdLines(tagsKV[key].val)])
           ELSE IF KVKeysErr(tasksKV) # NoErr
                THEN Finish(c, f, [NoRet EXCEPT !.err = KVKeysErr(tasksKV)])
                ELSE ListLoop(c, [f EXCEPT !.keys = KVKeys(tasksKV)])
    /\ UNCHANGED <<tasksKV, tagsKV, seqT, seqG, prev, conc, fnIn, fnOut, tagsDown>>

\* List_Fetch that gives up on an id that does not resolve
List_FetchStrict(c) ==
    /\ pc[c] = "list_fetch"
    /\ LET f == frame[c]
           id == Head(f.keys)
       IN  IF ~KVHas(tasksKV, id) THEN Finish(c, f, [NoRet EXCEPT !.err = "not found"])
           ELSE ListLoop(c, [f EXCEPT !.keys = Tail(f.keys),
                                      !.out = IF StatusKeeps(f.call.status, tasksKV[id].val)
                                              THEN Append(f.out, tasksKV[id].val) ELSE f.out])
    /\ UNCHANGED <<tasksKV, tagsKV, seqT, seqG, prev, conc, fnIn, fnOut, tagsDown>>

\* List: GetTask of the next id; an id that does not resolve is skipped
List_Fetch(c) ==
    /\ pc[c] = "list_fetch"
    /\ LET f == frame[c]
           id == Head(f.keys)
           keep == KVHas(tasksKV, id) /\ StatusKeeps(f.call.status, tasksKV[id].val)
       IN  ListLoop(c, [f EXCEPT !.keys = Tail(f.keys),
                                 !.out = IF keep THEN Append(f.out, tasksKV[id].val) ELSE f.out])
    /\ UNCHANGED <<tasksKV, tagsKV, seqT, seqG, prev, conc, fnIn, fnOut, tagsDown>>

\* readTag of Query: the ids of a tag's entry, none when the key is absent
readTag(kv, tag) == IF KVHas(kv, tag) THEN Range(IdLines(kv[tag].val)) ELSE {}

QueryFetchLoop(c, f) ==
    IF f.union = {} THEN Finish(c, f, [NoRet EXCEPT !.tasks = f.out])
    ELSE Goto(c, f, "query_fetch")

QueryAfterAny(c, f) ==
    IF NormTags(f.call.all) = <<>> THEN QueryFetchLoop(c, f)
    ELSE Goto(c, [f EXCEPT !.keys = NormTags(f.call.all)], "query_all")

\* Query without ANY tags: tasksKV.Keys() starts the union
Query_Keys(c) ==
    /\ pc[c] = "query_keys"
    /\ LET f == frame[c]
       IN  IF KVKeysErr(tasksKV) # NoErr
           THEN Finish(c, f, [NoRet EXCEPT !.err = KVKeysErr(tasksKV)])
           ELSE QueryAfterAny(c, [f EXCEPT !.union = Range(KVKeys(tasksKV))])
    /\ UNCHANGED <<tasksKV, tagsKV, seqT, seqG, prev, conc, fnIn, fnOut, tagsDown>>

\* Query: readTag of the next ANY tag, added to the union
Query_Any(c) ==
    /\ pc[c] = "query_any"
    /\ LET f == frame[c]
           g == [f EXCEPT !.union = f.union \cup readTag(tagsKV, Head(f.keys)),
                          !.keys = Tail(f.keys)]
       IN  IF tagsDown THEN Finish(c, f, [NoRet EXCEPT !.err = "unavailable"])
           ELSE IF g.keys = <<>> THEN QueryAfterAny(c, g) ELSE Goto(c, g, "query_any")
    /\ UNCHANGED <<tasksKV, tagsKV, seqT, seqG, prev, conc, fnIn, fnOut, tagsDown>>

\* Query_All that widens the union instead of narrowing it
Query_AllUnion(c) ==
    /\ pc[c] = "query_all"
    /\ LET f == frame[c]
           g == [f EXCEPT !.union = f.union \cup readTag(tagsKV, Head(f.keys)),
                          !.keys = Tail(f.keys)]
       IN  IF tagsDown THEN Finish(c, f, [NoRet EXCEPT !.err = "unavailable"])
           ELSE IF g.keys = <<>> THEN QueryFetchLoop(c, g) ELSE Goto(c, g, "query_all")
    /\ UNCHANGED <<tasksKV, tagsKV, seqT, seqG, prev, conc, fnIn, fnOut, tagsDown>>

\* Query: readTag of the next ALL tag, intersected with the union
Query_All(c) ==
    /\ pc[c] = "query_all"
    /\ LET f == frame[c]
           g == [f EXCEPT !.union = f.union \cap readTag(tagsKV, Head(f.keys)),
                          !.keys = Tail(f.keys)]
       IN  IF tagsDown THEN Finish(c, f, [NoRet EXCEPT !.err = "unavailable"])
           ELSE IF g.keys = <<>> THEN QueryFetchLoop(c, g) ELSE Goto(c, g, "query_all")
    /\ UNCHANGED <<tasksKV, tagsKV, seqT, seqG, prev, conc, fnIn, fnOut, tagsDown>>

\* Query that fetches every id whatever the limit
Query_FetchNoLimit(c) ==
    /\ pc[c] = "query_fetch"
    /\ LET f == frame[c]
       IN  \E id \in f.union :
              LET out == IF KVHas(tasksKV, id) THEN Append(f.out, tasksKV[id].val) ELSE f.out
                  g == [f EXCEPT !.union = f.union \ {id}, !.out = out]
              IN  QueryFetchLoop(c, g)
    /\ UNCHANGED <<tasksKV, tagsKV, seqT, seqG, prev, conc, fnIn, fnOut, tagsDown>>

\* Query: GetTask of some id of the union (map order), up to the limit
Query_Fetch(c) ==
    /\ pc[c] = "query_fetch"
    /\ LET f == frame[c]
       IN  \E id \in f.union :
              LET out == IF KVHas(tasksKV, id) THEN Append(f.out, tasksKV[id].val) ELSE f.out
                  g == [f EXCEPT !.union = f.union \ {id}, !.out = out]
              IN  IF KVHas(tasksKV, id) /\ f.call.limit > 0 /\ Len(out) >= f.call.limit
                  THEN Finish(c, g, [NoRet EXCEPT !.tasks = out])
                  ELSE QueryFetchLoop(c, g)
    /\ UNCHANGED <<tasksKV, tagsKV, seqT, seqG, prev, conc, fnIn, fnOut, tagsDown>>

\* Resolve without the empty-prefix check
ResolveNoCheck(kv, prefix) ==
    IF KVKeysErr(kv) # NoErr THEN [id |-> <<>>, cands |-> <<>>, err |-> KVKeysErr(kv)]
    ELSE matchPrefix(KVKeys(kv), TrimSpace(prefix))

\* what Resolve returns on the tasks bucket kv
ResolveResult(kv, prefix) ==
    IF TrimSpace(prefix) = <<>> THEN [id |-> <<>>, cands |-> <<>>, err |-> "empty prefix"]
    ELSE IF KVKeysErr(kv) # NoErr THEN [id |-> <<>>, cands |-> <<>>, err |-> KVKeysErr(kv)]
    ELSE matchPrefix(KVKeys(kv), TrimSpace(prefix))

\* Resolve: the empty-prefix check, tasksKV.Keys(), matchPrefix
Resolve(c) ==
    /\ pc[c] = "resolve"
    /\ LET f == frame[c]
           r == ResolveResult(tasksKV, f.call.prefix)
       IN  Finish(c, f, [NoRet EXCEPT !.id = r.id, !.cands = r.cands, !.err = r.err])
    /\ UNCHANGED <<tasksKV, tagsKV, seqT, seqG, prev, conc, fnIn, fnOut, tagsDown>>

(***************************************************************************)
(* RebuildIndex                                                            *)
(***************************************************************************)

AccHas(acc, tag) == \E i \in 1..Len(acc) : acc[i].tag = tag

AccAdd(acc, tag, id) ==
    IF AccHas(acc, tag)
    THEN [i \in 1..Len(acc) |-> IF acc[i].tag = tag
                                 THEN [acc[i] EXCEPT !.ids = Append(@, id)] ELSE acc[i]]
    ELSE Append(acc, [tag |-> tag, ids |-> <<id>>])

\* the accumulator after the tags of one task
RECURSIVE AccTask(_, _, _)
AccTask(acc, tags, id) ==
    IF tags = <<>> THEN acc
    ELSE LET tag == ToLower(TrimSpace(Head(tags)))
         IN  AccTask(IF tag = <<>> THEN acc ELSE AccAdd(acc, tag, id), Tail(tags), id)

\* NotInAcc that finds nothing to delete
NotInAccNone(keys, acc) == <<>>

RECURSIVE NotInAcc(_, _)
NotInAcc(keys, acc) ==
    IF keys = <<>> THEN <<>>
    ELSE IF AccHas(acc, Head(keys)) THEN NotInAcc(Tail(keys), acc)
    ELSE <<Head(keys)>> \o NotInAcc(Tail(keys), acc)

RebuildPutLoop(c, f) ==
    IF f.acc = <<>> THEN Finish(c, f, NoRet) ELSE Goto(c, f, "rebuild_put")

RebuildDeleteLoop(c, f) ==
    IF f.keys = <<>> THEN RebuildPutLoop(c, f) ELSE Goto(c, f, "rebuild_delete")

\* RebuildIndex: tasksKV.Keys()
RebuildIndex_Keys(c) ==
    /\ pc[c] = "rebuild_keys"
    /\ LET f == frame[c]
       IN  IF KVKeysErr(tasksKV) # NoErr
           THEN Finish(c, f, [NoRet EXCEPT !.err = KVKeysErr(tasksKV)])
           ELSE Goto(c, [f EXCEPT !.keys = KVKeys(tasksKV)], "rebuild_scan")
    /\ UNCHANGED <<tasksKV, tagsKV, seqT, seqG, prev, conc, fnIn, fnOut, tagsDown>>

\* RebuildIndex: GetTask of the next key, its tags into the accumulator
RebuildIndex_Scan(c) ==
    /\ pc[c] = "rebuild_scan"
    /\ LET f == frame[c]
           k == Head(f.keys)
           g == [f EXCEPT !.keys = Tail(f.keys),
                          !.acc = IF KVHas(tasksKV, k)
                                  THEN AccTask(f.acc, tasksKV[k].val.tags, tasksKV[k].val.id)
                                  ELSE f.acc]
       IN  Goto(c, g, IF g.keys = <<>> THEN "rebuild_oldkeys" ELSE "rebuild_scan")
    /\ UNCHANGED <<tasksKV, tagsKV, seqT, seqG, prev, conc, fnIn, fnOut, tagsDown>>

\* RebuildIndex: tagsKV.Keys(); its error skips the deletions
RebuildIndex_OldKeys(c) ==
    /\ pc[c] = "rebuild_oldkeys"
    /\ LET f == frame[c]
       IN  IF tagsDown \/ KVKeysErr(tagsKV) # NoErr THEN RebuildPutLoop(c, f)
           ELSE RebuildDeleteLoop(c, [f EXCEPT !.keys = NotInAcc(KVKeys(tagsKV), f.acc)])
    /\ UNCHANGED <<tasksKV, tagsKV, seqT, seqG, prev, conc, fnIn, fnOut, tagsDown>>

\* RebuildIndex: tagsKV.Delete of a tag key the accumulator lacks; its
\* error is dropped
RebuildIndex_Delete(c) ==
    /\ pc[c] = "rebuild_delete"
    /\ LET f == frame[c]
       IN  IF tagsDown
           THEN /\ UNCHANGED <<tagsKV, seqG>>
                /\ RebuildDeleteLoop(c, [f EXCEPT !.keys = Tail(f.keys)])
           ELSE /\ seqG < MaxSeqG
                /\ tagsKV' = KVRemove(tagsKV, Head(f.keys))
                /\ seqG' = seqG + 1
                /\ RebuildDeleteLoop(c, [f EXCEPT !.keys = Tail(f.keys)])
    /\ UNCHANGED <<tasksKV, seqT, prev, conc, fnIn, fnOut, tagsDown>>

\* RebuildIndex: tagsKV.Put of some tag of the accumulator (map order)
RebuildIndex_Put(c) ==
    /\ pc[c] = "rebuild_put"
    /\ LET f == frame[c]
       IN  IF tagsDown
           THEN /\ UNCHANGED <<tagsKV, seqG>>
                /\ Finish(c, f, [NoRet EXCEPT !.err = "write tag"])
           ELSE \E i \in 1..Len(f.acc) :
              /\ seqG < MaxSeqG
              /\ tagsKV' = KVWrite(tagsKV, f.acc[i].tag, JoinLines(f.acc[i].ids), seqG + 1)
              /\ seqG' = seqG + 1
              /\ RebuildPutLoop(c, [f EXCEPT !.acc = [j \in 1..(Len(f.acc) - 1) |->
                                                        IF j < i THEN f.acc[j] ELSE f.acc[j + 1]]])
    /\ UNCHANGED <<tasksKV, seqT, prev, conc, fnIn, fnOut, tagsDown>>

\* ListTags: tagsKV.Keys(); its error is returned
ListTags_Keys(c) ==
    /\ pc[c] = "listtags_keys"
    /\ LET f == frame[c]
       IN  IF tagsDown THEN Finish(c, f, [NoRet EXCEPT !.err = "unavailable"])
           ELSE IF KVKeysErr(tagsKV) # NoErr
           THEN Finish(c, f, [NoRet EXCEPT !.err = KVKeysErr(tagsKV)])
           ELSE Goto(c, [f EXCEPT !.keys = KVKeys(tagsKV)], "listtags_get")
    /\ UNCHANGED <<tasksKV, tagsKV, seqT, seqG, prev, conc, fnIn, fnOut, tagsDown>>

\* the counts with the count of one more tag
WithCount(counts, tag, n) ==
    [t \in (DOMAIN counts) \cup {tag} |-> IF t = tag THEN n ELSE counts[t]]

ListTagsLoop(c, f) ==
    IF f.keys = <<>> THEN Finish(c, f, f.pend) ELSE Goto(c, f, "listtags_get")

\* ListTags that counts every line of the entry
ListTags_GetAllLines(c) ==
    /\ pc[c] = "listtags_get"
    /\ LET f == frame[c]
           k == Head(f.keys)
           g == [f EXCEPT !.keys = Tail(f.keys)]
       IN  IF tagsDown \/ ~KVHas(tagsKV, k) THEN ListTagsLoop(c, g)
           ELSE ListTagsLoop(c, [g EXCEPT !.pend.counts =
                                    WithCount(@, k, Len(SplitLines(tagsKV[k].val)))])
    /\ UNCHANGED <<tasksKV, tagsKV, seqT, seqG, prev, conc, fnIn, fnOut, tagsDown>>

\* ListTags: tagsKV.Get of the next key, the count of its lines that are not
\* blank; a key whose Get fails is left out
ListTags_Get(c) ==
    /\ pc[c] = "listtags_get"
    /\ LET f == frame[c]
           k == Head(f.keys)
           g == [f EXCEPT !.keys = Tail(f.keys)]
       IN  IF tagsDown \/ ~KVHas(tagsKV, k) THEN ListTagsLoop(c, g)
           ELSE ListTagsLoop(c, [g EXCEPT !.pend.counts =
                                    WithCount(@, k, Len(IdLines(tagsKV[k].val)))])
    /\ UNCHANGED <<tasksKV, tagsKV, seqT, seqG, prev, conc, fnIn, fnOut, tagsDown>>

(***************************************************************************)
(* Calls the clients make                                                  *)
(***************************************************************************)

In(text, tags, priority) == [text |-> text, tags |-> tags, priority |-> priority, est |-> 0]

\* " x" tagged B, a, b and "x" tagged " a", b: one canonical form
InXab1 == In(<<" ", "x">>, << <<"B">>, <<"a">>, <<"b">> >>, 0)

InXab2 == In(<<"x">>, << <<" ", "a">>, <<"b">> >>, 0)

InYbc == In(<<"y">>, << <<"b">>, <<"c">> >>, 0)

InX == In(<<"x">>, <<>>, 0)

IdXab == NormalizeInput(InXab1).id

IdYbc == NormalizeInput(InYbc).id

IdX == NormalizeInput(InX).id

Nil == <<>>

Some(v) == <<v>>

Patch(text, done, tags, priority) ==
    [text |-> text, done |-> done, tags |-> tags, priority |-> priority]

CreateCall(in, now) == [op |-> "create", in |-> in, now |-> now]

UpdateCall(id, set) == [op |-> "update", id |-> id, set |-> set]

IdCall(op, id) == [op |-> op, id |-> id]

ListCall(tag, status) == [op |-> "list", tag |-> tag, status |-> status]

QueryCall(any, all, limit) == [op |-> "query", any |-> any, all |-> all, limit |-> limit]

ResolveCall(prefix) == [op |-> "resolve", prefix |-> prefix]

RebuildCall == [op |-> "rebuild"]

ListTagsCall == [op |-> "listtags"]

\* "y" tagged y, with an estimate
InYy == [In(<<"y">>, << <<"y">> >>, 0) EXCEPT !.est = 1]

IdYy == NormalizeInput(InYy).id

SeqIds == {IdXab, IdYy}

SeqCalls ==
    {CreateCall(InXab1, 1), CreateCall(InXab2, 2), CreateCall(InYy, 1)}
    \cup {UpdateCall(id, set) : id \in SeqIds,
            set \in {Patch(Nil, Nil, Some(<< <<"c">>, <<"B">>, <<"b">> >>), Nil),
                     Patch(Nil, Nil, Some(<<>>), Nil),
                     Patch(Some(<<"y", " ">>), Some(TRUE), Nil, Some(1))}}
    \cup {IdCall(op, id) : op \in {"get", "delete", "close", "reopen"}, id \in SeqIds}
    \cup {RebuildCall}

ReadCalls ==
    {CreateCall(InXab1, 1), CreateCall(InYbc, 1), CreateCall(InX, 1)}
    \cup {UpdateCall(IdYbc, Patch(Nil, Some(TRUE), Some(<< <<"a">> >>), Nil))}
    \cup {IdCall("delete", IdXab), IdCall("close", IdX), IdCall("reopen", IdX)}
    \cup {ListCall(tag, status) : tag \in {<<>>, <<"B">>}, status \in {"", "open"}}
    \cup {QueryCall(any, all, limit) :
            any \in {<<>>, << <<"a">>, <<"C">> >>}, all \in {<<>>, << <<"b">> >>},
            limit \in {-1, 0, 1}}
    \cup {ResolveCall(prefix) : prefix \in {<<>>, <<" ">>, <<"8">>, <<"9", "0">>}}

\* "x" tagged a, and " x" tagged A, a: one canonical form
InXa1 == In(<<"x">>, << <<"a">> >>, 0)

InXa2 == In(<<" ", "x">>, << <<"A">>, <<"a">> >>, 0)

IdXa == NormalizeInput(InXa1).id

ConcCalls ==
    {CreateCall(InXa1, 1), CreateCall(InXa2, 2)}
    \cup {UpdateCall(IdXa, Patch(Nil, Nil, Nil, Some(1)))}
    \cup {IdCall(op, IdXa) : op \in {"delete", "close", "reopen"}}

(***************************************************************************)
(* Specifications                                                          *)
(***************************************************************************)

InitStore ==
    /\ tasksKV = <<>>
    /\ tagsKV = <<>>
    /\ seqT = 0
    /\ seqG = 0
    /\ pc = [c \in Clients |-> "idle"]
    /\ frame = [c \in Clients |-> EmptyFrame]
    /\ ret = [c \in Clients |-> NoRet]
    /\ prev = [call |-> NoCall, ret |-> NoRet, absent0 |-> FALSE]
    /\ conc = [c \in Clients |-> {}]
    /\ tagsDown = FALSE

Init ==
    /\ InitStore
    /\ fnIn = <<>>
    /\ fnOut = <<>>

\* the caller drops the result
Forget(c) ==
    /\ pc[c] = "done"
    /\ pc' = [pc EXCEPT ![c] = "idle"]
    /\ frame' = [frame EXCEPT ![c] = EmptyFrame]
    /\ ret' = [ret EXCEPT ![c] = NoRet]
    /\ conc' = [conc EXCEPT ![c] = {}]
    /\ UNCHANGED <<tasksKV, tagsKV, seqT, seqG, prev, fnIn, fnOut, tagsDown>>

WriteStep(c) ==
    \/ CreateTask(c)
    \/ CreateTask_GetExisting(c)
    \/ appendTagID_Get(c)
    \/ appendTagID_Create(c)
    \/ appendTagID_Update(c)
    \/ removeTagID_Get(c)
    \/ removeTagID_Update(c)
    \/ UpdateTask_Get(c)
    \/ UpdateTask_Put(c)
    \/ DeleteTask_Get(c)
    \/ DeleteTask_Delete(c)
    \/ CloseTask_Get(c)
    \/ CloseTask_Put(c)
    \/ ReopenTask_Get(c)
    \/ ReopenTask_Put(c)

ReadStep(c) ==
    \/ List_Start(c)
    \/ List_Fetch(c)
    \/ Query_Keys(c)
    \/ Query_Any(c)
    \/ Query_All(c)
    \/ Query_Fetch(c)
    \/ Resolve(c)

RebuildStep(c) ==
    \/ RebuildIndex_Keys(c)
    \/ RebuildIndex_Scan(c)
    \/ RebuildIndex_OldKeys(c)
    \/ RebuildIndex_Delete(c)
    \/ RebuildIndex_Put(c)

\* clients run their operations concurrently
Next ==
    \E c \in Clients :
        \/ \E call \in ConcCalls : Call(c, call)
        \/ WriteStep(c)
        \/ Forget(c)

Spec == Init /\ [][Next]_vars

AllIdle == \A c \in Clients : pc[c] = "idle"

SeqClient == "c1"

\* one client, one operation at a time
NextSeq ==
    \E c \in {SeqClient} :
        \/ \E call \in SeqCalls : CallObserved(c, call)
        \/ GetTask(c)
        \/ WriteStep(c)
        \/ RebuildStep(c)
        \/ Return(c)

SpecSeq == Init /\ [][NextSeq]_vars

\* one client that also lists, queries and resolves
NextRead ==
    \E c \in {SeqClient} :
        \/ \E call \in ReadCalls : CallObserved(c, call)
        \/ WriteStep(c)
        \/ ReadStep(c)
        \/ Forget(c)

SpecRead == Init /\ [][NextRead]_vars

(***************************************************************************)
(* Repair: the tag index is edited by hand, then rebuilt                   *)
(***************************************************************************)

RepairCalls ==
    {CreateCall(InXa1, 1), CreateCall(InYbc, 1), RebuildCall,
     ListCall(<<"a">>, ""), QueryCall(<< <<"a">>, <<"c">> >>, <<>>, 0),
     QueryCall(<<>>, << <<"b">> >>, 0)}

\* what a hand edit leaves in an entry: nothing, a blank line and a stale
\* id, an id twice
CorruptValues ==
    {<<>>, <<"\n">> \o IdX, IdYbc \o <<"\n">> \o IdYbc}

CorruptTags == {<<"a">>, <<"y">>}

\* somebody overwrites a tag entry
CorruptPut(tag, val) ==
    /\ AllIdle
    /\ seqG < MaxSeqG
    /\ tagsKV' = KVWrite(tagsKV, tag, val, seqG + 1)
    /\ seqG' = seqG + 1
    /\ prev' = [call |-> NoCall, ret |-> NoRet, absent0 |-> FALSE]
    /\ UNCHANGED <<tasksKV, seqT, pc, frame, ret, conc, fnIn, fnOut, tagsDown>>

\* somebody deletes a tag entry
CorruptDelete(tag) ==
    /\ AllIdle
    /\ KVHas(tagsKV, tag)
    /\ seqG < MaxSeqG
    /\ tagsKV' = KVRemove(tagsKV, tag)
    /\ seqG' = seqG + 1
    /\ prev' = [call |-> NoCall, ret |-> NoRet, absent0 |-> FALSE]
    /\ UNCHANGED <<tasksKV, seqT, pc, frame, ret, conc, fnIn, fnOut, tagsDown>>

CreateStep(c) ==
    \/ CreateTask(c)
    \/ CreateTask_GetExisting(c)
    \/ appendTagID_Get(c)
    \/ appendTagID_Create(c)
    \/ appendTagID_Update(c)

ScanStep(c) ==
    \/ List_Start(c)
    \/ List_Fetch(c)
    \/ Query_Keys(c)
    \/ Query_Any(c)
    \/ Query_All(c)
    \/ Query_Fetch(c)

NextRepair ==
    \/ \E c \in {SeqClient} :
          \/ \E call \in RepairCalls : CallObserved(c, call)
          \/ CreateStep(c)
          \/ ScanStep(c)
          \/ RebuildStep(c)
          \/ Return(c)
    \/ \E tag \in CorruptTags : \E val \in CorruptValues : CorruptPut(tag, val)
    \/ \E tag \in CorruptTags : CorruptDelete(tag)

SpecRepair == Init /\ [][NextRepair]_vars

\* queries with a limit over an index that is edited by hand
LimitCalls ==
    {CreateCall(InXa1, 1), CreateCall(InYbc, 1),
     QueryCall(<< <<"a">>, <<"c">> >>, <<>>, 1), QueryCall(<< <<"a">>, <<"c">> >>, <<>>, 2),
     QueryCall(<<>>, << <<"b">> >>, 1)}

NextLimit ==
    \/ \E c \in {SeqClient} :
          \/ \E call \in LimitCalls : CallObserved(c, call)
          \/ CreateStep(c)
          \/ Query_Keys(c)
          \/ Query_Any(c)
          \/ Query_All(c)
          \/ Query_Fetch(c)
          \/ Return(c)
    \/ \E tag \in CorruptTags : \E val \in CorruptValues : CorruptPut(tag, val)

SpecLimit == Init /\ [][NextLimit]_vars

(***************************************************************************)
(* Outage: the tags bucket becomes unreachable and comes back while one    *)
(* client works                                                            *)
(***************************************************************************)

FaultCalls ==
    {CreateCall(InXab1, 1), RebuildCall,
     UpdateCall(IdXab, Patch(Nil, Nil, Some(<< <<"c">>, <<"b">> >>), Nil)),
     IdCall("delete", IdXab), IdCall("close", IdXab), IdCall("reopen", IdXab)}

\* the tags bucket becomes unreachable; the running operations have seen an outage
TagsGoDown ==
    /\ ~tagsDown
    /\ tagsDown' = TRUE
    /\ frame' = [c \in Clients |-> IF InFlight(c) THEN [frame[c] EXCEPT !.outage = TRUE]
                                    ELSE frame[c]]
    /\ UNCHANGED <<tasksKV, tagsKV, seqT, seqG, pc, ret, prev, conc, fnIn, fnOut>>

TagsComeUp ==
    /\ tagsDown
    /\ tagsDown' = FALSE
    /\ UNCHANGED <<tasksKV, tagsKV, seqT, seqG, pc, frame, ret, prev, conc, fnIn, fnOut>>

NextFault ==
    \/ \E c \in {SeqClient} :
          \/ \E call \in FaultCalls : CallObserved(c, call)
          \/ WriteStep(c)
          \/ RebuildStep(c)
          \/ Return(c)
    \/ TagsGoDown
    \/ TagsComeUp

SpecFault == Init /\ [][NextFault]_vars

(***************************************************************************)
(* Two clients whose entities share a tag                                  *)
(***************************************************************************)

\* "y" tagged a
InYa == In(<<"y">>, << <<"a">> >>, 0)

IdYa == NormalizeInput(InYa).id

\* "c" tagged a
InCa == In(<<"c">>, << <<"a">> >>, 0)

IdCa == NormalizeInput(InCa).id

IndexCalls ==
    {CreateCall(InXa1, 1), CreateCall(InYa, 1), CreateCall(InCa, 1), IdCall("delete", IdXa)}

IndexStep(c) ==
    \/ CreateStep(c)
    \/ DeleteTask_Get(c)
    \/ DeleteTask_Delete(c)
    \/ removeTagID_Get(c)
    \/ removeTagID_Update(c)

NextIndex ==
    \E c \in Clients :
        \/ \E call \in IndexCalls : CallObserved(c, call)
        \/ IndexStep(c)
        \/ Forget(c)

SpecIndex == Init /\ [][NextIndex]_vars

(***************************************************************************)
(* Two clients running every writing operation, RebuildIndex included      *)
(***************************************************************************)

\* one client works on its task, the other creates a task with the same
\* tag, deletes the first one and rebuilds the index
MixCalls(c) ==
    IF c = "c1"
    THEN {CreateCall(InXa1, 1), UpdateCall(IdXa, Patch(Nil, Nil, Some(<< <<"b">> >>), Nil)),
          IdCall("close", IdXa), IdCall("reopen", IdXa)}
    ELSE {CreateCall(InYa, 1), IdCall("delete", IdXa), RebuildCall}

NextMix ==
    \E c \in Clients :
        \/ \E call \in MixCalls(c) : Call(c, call)
        \/ WriteStep(c)
        \/ RebuildStep(c)
        \/ Forget(c)

SpecMix == Init /\ [][NextMix]_vars

\* one client that creates, retags, closes and deletes two tasks of one tag,
\* rebuilds the index and lists the tags
TagsCalls ==
    {CreateCall(InXa1, 1), CreateCall(InYa, 1),
     UpdateCall(IdXa, Patch(Nil, Nil, Some(<< <<"b">> >>), Nil)),
     IdCall("delete", IdXa), IdCall("delete", IdYa), IdCall("close", IdYa),
     IdCall("reopen", IdYa), RebuildCall, ListTagsCall}

NextTags ==
    \E c \in {SeqClient} :
        \/ \E call \in TagsCalls : CallObserved(c, call)
        \/ WriteStep(c)
        \/ RebuildStep(c)
        \/ ListTags_Keys(c)
        \/ ListTags_Get(c)
        \/ Return(c)

SpecTags == Init /\ [][NextTags]_vars

(***************************************************************************)
(* matchPrefix on lists of ids                                             *)
(***************************************************************************)

MaxKeys == 3

PrefixKeys == {<<"a", "b", "1">>, <<"a", "b", "9">>, <<"b", "e", "a">>, <<"a", "c">>}

Prefixes == {<<"a">>, <<"a", "b">>, <<"b">>, <<"d">>, <<"a", "b", "1">>, <<"a", "b", "1", "2">>}

\* the lists of distinct keys, as Keys() reports them
KeyLists ==
    UNION {{l \in [1..n -> PrefixKeys] : \A i, j \in 1..n : i # j => l[i] # l[j]} :
              n \in 0..MaxKeys}

InitPrefix ==
    /\ InitStore
    /\ fnIn \in {[keys |-> l, prefix |-> p] : l \in KeyLists, p \in Prefixes}
    /\ fnOut = [done |-> FALSE]

MatchPrefixStep ==
    /\ ~fnOut.done
    /\ fnOut' = [done |-> TRUE, r |-> matchPrefix(fnIn.keys, fnIn.prefix)]
    /\ UNCHANGED <<fnIn, tasksKV, tagsKV, seqT, seqG, pc, frame, ret, prev, conc, tagsDown>>

SpecPrefix == InitPrefix /\ [][MatchPrefixStep]_vars

(***************************************************************************)
(* NormalizeInput on pairs of inputs                                       *)
(***************************************************************************)

NormTexts ==
    {<<>>, <<"x">>, <<" ", "x", "\n">>, <<"x", " ", "y">>, <<"x", " ", " ", "y">>,
     <<" ", "x", " ", " ", "y", "\n">>, <<"x", "\n", "y">>,
     <<"U+FFFD">>, <<"0xFE">>, <<"0xFF">>}

NormTagLists ==
    {<<>>, << <<"a">> >>, << <<"b">>, <<"a">> >>,
     << <<"A">>, <<" ", "b">>, <<"a">>, <<" ">> >>, << <<"a", "b">> >>}

NormInputs ==
    {[text |-> text, tags |-> tags, priority |-> priority, est |-> est] :
        text \in NormTexts, tags \in NormTagLists, priority \in {0, 1}, est \in {0, 1}}

InitNorm ==
    /\ InitStore
    /\ fnIn \in {[a |-> a, b |-> b] : a \in NormInputs, b \in NormInputs}
    /\ fnOut = [done |-> FALSE]

NormalizeStep ==
    /\ ~fnOut.done
    /\ fnOut' = [done |-> TRUE, ra |-> NormalizeInput(fnIn.a), rb |-> NormalizeInput(fnIn.b)]
    /\ UNCHANGED <<fnIn, tasksKV, tagsKV, seqT, seqG, pc, frame, ret, prev, conc, tagsDown>>

SpecNorm == InitNorm /\ [][NormalizeStep]_vars

(***************************************************************************)
(* Trailer parser: Details, Trailers and TrailerDrops of a task text.      *)
(* Line indices count from 0 as in the code; line i is lines[i + 1].       *)
(***************************************************************************)

splitLines(str) == SplitFrom(str, <<>>)

joinLines(lines) == JoinLines(lines)

BlankLine(line) == TrimSpace(line) = <<>>

\* the leading blank lines skipped: the first index from start that is not
\* blank, or end
RECURSIVE SkipBlanksUp(_, _, _)
SkipBlanksUp(lines, start, end) ==
    IF start < end /\ BlankLine(lines[start + 1]) THEN SkipBlanksUp(lines, start + 1, end)
    ELSE start

\* the trailing blank lines skipped: the smallest end above start with a
\* line that is not blank before it, or start
RECURSIVE SkipBlanksDown(_, _, _)
SkipBlanksDown(lines, start, end) ==
    IF end > start /\ BlankLine(lines[end]) THEN SkipBlanksDown(lines, start, end - 1)
    ELSE end

trimBlankLines(str) ==
    LET lines == splitLines(str)
        start == SkipBlanksUp(lines, 0, Len(lines))
        end == SkipBlanksDown(lines, start, Len(lines))
    IN  IF start >= end THEN <<>> ELSE joinLines(SubSeq(lines, start + 1, end))

KeyChars == Range(HexDigits) \cup {"A", "B", "k", "x", "y", "-"}

\* isValidKey that takes the empty key
isValidKeyOrEmpty(str) == \A i \in 1..Len(str) : str[i] \in KeyChars

isValidKey(str) == str # <<>> /\ \A i \in 1..Len(str) : str[i] \in KeyChars

RECURSIVE SkipAfterColon(_, _)
SkipAfterColon(str, j) ==
    IF j < Len(str) /\ str[j + 1] \in {" ", "\t"} THEN SkipAfterColon(str, j + 1) ELSE j

\* parseTrailer: Key: Value at the first colon
parseTrailer(str) ==
    LET colons == {i \in 0..(Len(str) - 1) : str[i + 1] = ":"}
    IN  IF colons = {} THEN [ok |-> FALSE]
        ELSE LET i == CHOOSE x \in colons : \A y \in colons : x <= y
                 key == SubSeq(str, 1, i)
             IN  IF ~isValidKey(key) THEN [ok |-> FALSE]
                 ELSE [ok |-> TRUE, Key |-> key,
                       Value |-> SubSeq(str, SkipAfterColon(str, i + 1) + 1, Len(str))]

\* the index of the nearest blank line at or above k, -1 without one
RECURSIVE BlankAbove(_, _)
BlankAbove(lines, k) ==
    IF k < 0 THEN -1
    ELSE IF BlankLine(lines[k + 1]) THEN k
    ELSE BlankAbove(lines, k - 1)

\* trailerRegionBounds that takes the trailing run without asking for a blank line above it
trailerRegionBoundsAnyRun(text) ==
    LET lines == splitLines(text)
        n == Len(lines)
        endIdx == SkipBlanksDown(lines, 0, n) - 1
    IN  IF endIdx < 0 THEN [end |-> n, start |-> n]
        ELSE [end |-> endIdx + 1, start |-> BlankAbove(lines, endIdx) + 1]

\* trailerRegionBounds: (end exclusive, start inclusive) of the trailer
\* region, (n, n) without one
trailerRegionBounds(text) ==
    LET lines == splitLines(text)
        n == Len(lines)
        endIdx == SkipBlanksDown(lines, 0, n) - 1
        k == BlankAbove(lines, endIdx)
    IN  IF endIdx < 0 THEN [end |-> n, start |-> n]
        ELSE IF k < 0 \/ k = endIdx THEN [end |-> n, start |-> n]
        ELSE [end |-> endIdx + 1, start |-> SkipBlanksUp(lines, k + 1, n)]

\* the loop of trailerBlock over the lines i .. end - 1
RECURSIVE ClassifyLines(_, _, _, _)
ClassifyLines(lines, i, end, acc) ==
    IF i >= end THEN acc
    ELSE LET line == lines[i + 1]
             kv == parseTrailer(line)
         IN  ClassifyLines(lines, i + 1, end,
                 IF kv.ok THEN [acc EXCEPT !.trailers = Append(@, [Key |-> kv.Key, Value |-> kv.Value])]
                 ELSE IF ~BlankLine(line) THEN [acc EXCEPT !.drops = Append(@, line)]
                 ELSE acc)

trailerBlock(text) ==
    LET b == trailerRegionBounds(text)
    IN  IF b.start >= b.end THEN [drops |-> <<>>, trailers |-> <<>>, ok |-> FALSE]
        ELSE ClassifyLines(splitLines(text), b.start, b.end,
                           [drops |-> <<>>, trailers |-> <<>>, ok |-> TRUE])

\* Details that keeps the trailer region
DetailsWithRegion(text) ==
    LET lines == splitLines(text)
    IN  IF Len(lines) <= 1 THEN <<>>
        ELSE trimBlankLines(joinLines(SubSeq(lines, 2, Len(lines))))

Details(text) ==
    LET lines == splitLines(text)
        tb == trailerBlock(text)
        end == IF tb.ok /\ (Len(tb.trailers) > 0 \/ Len(tb.drops) > 0)
               THEN trailerRegionBounds(text).start
               ELSE Len(lines)
    IN  IF Len(lines) <= 1 THEN <<>>
        ELSE trimBlankLines(joinLines(SubSeq(lines, 2, end)))

Trailers(text) == trailerBlock(text).trailers

TrailerDrops(text) == trailerBlock(text).drops

\* the longest task text
MaxTextLen == 7

TextChars == {"\n", " ", "k", ":"}

Texts == UNION {[1..n -> TextChars] : n \in 0..MaxTextLen}

InitText ==
    /\ InitStore
    /\ fnIn \in {[text |-> text] : text \in Texts}
    /\ fnOut = [done |-> FALSE]

\* the text methods of Task applied to the text
TextStep ==
    /\ ~fnOut.done
    /\ fnOut' = [done |-> TRUE, details |-> Details(fnIn.text),
                 trailers |-> Trailers(fnIn.text), drops |-> TrailerDrops(fnIn.text),
                 bounds |-> trailerRegionBounds(fnIn.text)]
    /\ UNCHANGED <<fnIn, tasksKV, tagsKV, seqT, seqG, pc, frame, ret, prev, conc, tagsDown>>

SpecText == InitText /\ [][TextStep]_vars

(***************************************************************************)
(* Properties                                                              *)
(***************************************************************************)

RECURSIVE Count(_, _)
Count(l, x) ==
    IF l = <<>> THEN 0 ELSE (IF Head(l) = x THEN 1 ELSE 0) + Count(Tail(l), x)

\* the ids the index lists under tag in bucket kv
IndexIds(kv, tag) == IF KVHas(kv, tag) THEN IdLines(kv[tag].val) ELSE <<>>

\* the tags of an input as a set: lowercased, trimmed, without the empty tag
TagSetOf(tags) == {ToLower(TrimSpace(t)) : t \in Range(tags)} \ {<<>>}

SameInput(a, b) ==
    /\ TrimSpace(a.text) = TrimSpace(b.text)
    /\ TagSetOf(a.tags) = TagSetOf(b.tags)
    /\ a.priority = b.priority
    /\ a.est = b.est

Done(c, op) == pc[c] = "done" /\ frame[c].call.op = op

\* a Create of an absent id has returned and the same client has now
\* finished a Create with semantically identical input
SecondCreate(c) ==
    /\ Done(c, "create")
    /\ prev.call.op = "create"
    /\ prev.absent0
    /\ SameInput(prev.call.in, frame[c].call.in)

CreateRace(c1, c2) ==
    /\ c1 # c2
    /\ Done(c1, "create") /\ Done(c2, "create")
    /\ frame[c1].id = frame[c2].id
    /\ frame[c1].absent0 /\ frame[c2].absent0
    /\ conc[c1] = {<<c2, "create">>}
    /\ conc[c2] = {<<c1, "create">>}

\* C2: of two concurrent Creates of one id exactly one returns
\* existed=false, the other returns existed=true with the entity the winner
\* stored, neither returns an error, and that entity is what is stored.
C2_CreateRace ==
    \A c1, c2 \in Clients :
        CreateRace(c1, c2) =>
            /\ ret[c1].err = NoErr /\ ret[c2].err = NoErr
            /\ ret[c1].flag # ret[c2].flag
            /\ ~ret[c1].flag =>
                  /\ ret[c2].task = ret[c1].task
                  /\ KVHas(tasksKV, frame[c1].id)
                  /\ tasksKV[frame[c1].id].val = ret[c1].task

C2_Witness ==
    \E c1, c2 \in Clients :
        /\ CreateRace(c1, c2)
        /\ ~ret[c1].flag /\ ret[c2].flag
        /\ frame[c2].t # ret[c2].task

PutPcs == {"update_put", "close_put", "reopen_put"}

\* client c takes its write step holding a revision that is no longer current
StaleWrite(c) ==
    /\ pc[c] \in PutPcs
    /\ pc'[c] # pc[c]
    /\ ~KVUpdateOK(tasksKV, frame[c].id, frame[c].rev)

\* C3: the entity write of Update, Close and Reopen is conditional on the
\* revision of its own fetch: with another write committed in between, the
\* write fails with a conflict and the bucket keeps the committed value.
C3_ConditionalWrite ==
    [][\A c \in Clients : StaleWrite(c) => (tasksKV' = tasksKV /\ ret'[c].err # NoErr)]_vars

\* C4: on a conflict the store runs the fetch-modify-write cycle again (the
\* client is back at its fetch), or reports the retries as exhausted.
C4_RetryOnConflict ==
    [][\A c \in Clients :
          StaleWrite(c) =>
              \/ pc'[c] \in {"update_get", "close_get", "reopen_get"}
              \/ (pc'[c] = "done" /\ ret'[c].err = "conflict retries exhausted")]_vars

\* an entry of the index is the same in buckets kv1 and kv2
SameEntry(kv1, kv2, tag) ==
    /\ KVHas(kv1, tag) = KVHas(kv2, tag)
    /\ KVHas(kv1, tag) => kv1[tag].val = kv2[tag].val

\* C5: after an Update from tag set Old to New the id is absent from the
\* entries of Old \ New, present in those of New \ Old and of Old \cap New,
\* and every other entry is as it was when Update was called.
C5_UpdateIndex ==
    \A c \in Clients :
        (Done(c, "update") /\ ret[c].err = NoErr) =>
            LET id == frame[c].id
                Old == Range(frame[c].snapT[id].val.tags)
                New == Range(tasksKV[id].val.tags)
            IN  /\ \A tag \in Old \ New : ~Contains(IndexIds(tagsKV, tag), id)
                /\ \A tag \in New \ Old : Contains(IndexIds(tagsKV, tag), id)
                /\ \A tag \in Old \cap New : Contains(IndexIds(tagsKV, tag), id)
                /\ \A tag \in ((DOMAIN tagsKV) \cup (DOMAIN frame[c].snapG)) \ (Old \cup New) :
                      SameEntry(tagsKV, frame[c].snapG, tag)

C5_Witness ==
    \E c \in Clients :
        /\ Done(c, "update") /\ ret[c].err = NoErr
        /\ LET id == frame[c].id
               Old == Range(frame[c].snapT[id].val.tags)
               New == Range(tasksKV[id].val.tags)
           IN  /\ Old \ New # {} /\ New \ Old # {} /\ Old \cap New # {}
               /\ \E tag \in (DOMAIN tagsKV) \ (Old \cup New) : IndexIds(tagsKV, tag) # <<>>

\* the stored entities that carry tag
Tagged(tag) == {id \in DOMAIN tasksKV : tag \in Range(tasksKV[id].val.tags)}

\* the tags some stored entity carries
TagsInUse == UNION {Range(tasksKV[id].val.tags) : id \in DOMAIN tasksKV}

\* what a scan of the entity collection gives for List(tag, status)
ScanList(tag, status) ==
    {tasksKV[id].val : id \in {i \in Tagged(ToLower(TrimSpace(tag))) :
                                  StatusKeeps(status, tasksKV[i].val)}}

\* what a scan of the entity collection gives for Query(any, all)
ScanQuery(any, all) ==
    {tasksKV[id].val : id \in {i \in DOMAIN tasksKV :
        /\ TagSetOf(any) = {} \/ TagSetOf(any) \cap Range(tasksKV[i].val.tags) # {}
        /\ TagSetOf(all) \subseteq Range(tasksKV[i].val.tags)}}

\* the last operation that returned was a RebuildIndex without error
Rebuilt == prev.call.op = "rebuild" /\ prev.ret.err = NoErr

WasCorrupt(kv) ==
    \E tag \in DOMAIN kv :
        \/ tag \notin TagsInUse
        \/ Range(IdLines(kv[tag].val)) # Tagged(tag)
        \/ Len(SplitLines(kv[tag].val)) # Cardinality(Tagged(tag))

IndexConsistent ==
    \A tag \in (DOMAIN tagsKV) \cup TagsInUse : Range(IndexIds(tagsKV, tag)) = Tagged(tag)

C7_WitnessAll ==
    \E c \in Clients :
        /\ Done(c, "query") /\ frame[c].call.any = <<>> /\ frame[c].call.all = <<>>
        /\ Len(ret[c].tasks) = 3

\* key starts with prefix, character by character
StartsWith(key, prefix) ==
    /\ Len(prefix) <= Len(key)
    /\ \A i \in 1..Len(prefix) : key[i] = prefix[i]

Matching == {k \in Range(fnIn.keys) : StartsWith(k, fnIn.prefix)}

\* C8: matchPrefix reports not found when no id starts with the prefix, the
\* id without candidates or error when exactly one does, and ambiguous with
\* every matching id as candidates when two or more do.
C8_MatchPrefix ==
    fnOut.done =>
        /\ Matching = {} =>
              fnOut.r.err = "not found" /\ fnOut.r.id = <<>> /\ fnOut.r.cands = <<>>
        /\ Cardinality(Matching) = 1 =>
              fnOut.r.err = NoErr /\ fnOut.r.id \in Matching /\ fnOut.r.cands = <<>>
        /\ Cardinality(Matching) >= 2 =>
              /\ fnOut.r.err = "ambiguous"
              /\ fnOut.r.id = <<>>
              /\ Range(fnOut.r.cands) = Matching
              /\ Len(fnOut.r.cands) = Cardinality(Matching)

C8_Witness ==
    /\ fnOut.done
    /\ Cardinality(Matching) = 2
    /\ Len(fnIn.keys) = 3

\* C9: Resolve of the empty prefix returns no id, no candidates and an
\* error that is neither not found nor ambiguous, whatever is stored.
C9_EmptyPrefix ==
    \A c \in Clients :
        (Done(c, "resolve") /\ frame[c].call.prefix = <<>>) =>
            /\ ret[c].err = "empty prefix"
            /\ ret[c].err \notin {NoErr, "not found", "ambiguous"}
            /\ ret[c].id = <<>>
            /\ ret[c].cands = <<>>

C9_Witness ==
    \E c \in Clients :
        /\ Done(c, "resolve") /\ frame[c].call.prefix = <<>>
        /\ Cardinality(DOMAIN tasksKV) >= 2

\* C10: Close of a closed entity and Reopen of an open one return
\* changed=false with the stored entity and write nothing; otherwise done is
\* flipped and written and changed=true is returned; the same call made
\* twice in a row leaves what the first call left.
C10_CloseReopen ==
    \A c \in Clients :
        (pc[c] = "done" /\ frame[c].call.op \in {"close", "reopen"} /\ ret[c].err = NoErr) =>
            LET id == frame[c].id
                target == frame[c].call.op = "close"
                was == frame[c].snapT[id].val
            IN  /\ was.done = target =>
                      /\ ~ret[c].flag
                      /\ ret[c].task = was
                      /\ tasksKV = frame[c].snapT
                /\ was.done # target =>
                      /\ ret[c].flag
                      /\ ret[c].task = [was EXCEPT !.done = target]
                      /\ tasksKV[id].val = [was EXCEPT !.done = target]
                      /\ \A k \in (DOMAIN tasksKV) \ {id} : tasksKV[k] = frame[c].snapT[k]
                /\ (prev.call = frame[c].call /\ prev.ret.err = NoErr) =>
                      /\ ~ret[c].flag
                      /\ tasksKV[id].val = prev.ret.task
                /\ tagsKV = frame[c].snapG

C10_Witness ==
    \E c \in Clients :
        /\ Done(c, "close") /\ ret[c].err = NoErr
        /\ prev.call = frame[c].call /\ prev.ret.flag
        /\ ~ret[c].flag

\* the ids other than id that kv lists under tag
OtherIds(kv, tag, id) == Range(IndexIds(kv, tag)) \ {id}

\* C11: after a Delete that returned success the entity key is absent, a
\* Get of the id that follows fails with not found, the id is in the index
\* entry of none of the tags the entity had, and every entry lists the
\* other ids it listed when Delete was called.
C11_Delete ==
    \A c \in Clients :
        /\ (Done(c, "delete") /\ ret[c].err = NoErr) =>
              LET id == frame[c].id
                  was == frame[c].snapT[id].val
              IN  /\ ret[c].id = id
                  /\ ~KVHas(tasksKV, id)
                  /\ \A k \in (DOMAIN frame[c].snapT) \ {id} :
                        KVHas(tasksKV, k) /\ tasksKV[k] = frame[c].snapT[k]
                  /\ \A tag \in Range(was.tags) : ~Contains(IndexIds(tagsKV, tag), id)
                  /\ \A tag \in (DOMAIN tagsKV) \cup (DOMAIN frame[c].snapG) :
                        OtherIds(tagsKV, tag, id) = OtherIds(frame[c].snapG, tag, id)
        /\ (Done(c, "get") /\ prev.call = IdCall("delete", frame[c].id) /\ prev.ret.err = NoErr) =>
              ret[c].err = "not found"

C11_Witness ==
    \E c \in Clients :
        /\ Done(c, "delete") /\ ret[c].err = NoErr
        /\ Len(frame[c].snapT[frame[c].id].val.tags) = 2
        /\ \E tag \in DOMAIN tagsKV : OtherIds(tagsKV, tag, frame[c].id) # {}

\* C12: Get, Update, Delete, Close and Reopen of an id without a stored
\* entity fail with not found and leave both buckets as they were.
C12_NotFound ==
    \A c \in Clients :
        (/\ pc[c] = "done"
         /\ frame[c].call.op \in {"get", "update", "delete", "close", "reopen"}
         /\ ~KVHas(frame[c].snapT, frame[c].call.id)) =>
            /\ ret[c].err = "not found"
            /\ ret[c].task = NoTask /\ ret[c].id = <<>> /\ ~ret[c].flag
            /\ tasksKV = frame[c].snapT
            /\ tagsKV = frame[c].snapG

C12_Witness ==
    \E c \in Clients :
        /\ Done(c, "update")
        /\ ~KVHas(frame[c].snapT, frame[c].call.id)
        /\ frame[c].call.set.tags # <<>>
        /\ DOMAIN tasksKV # {} /\ DOMAIN tagsKV # {}

\* a canonical tag list: strictly ascending (so duplicate-free), lowercase,
\* without the empty tag
CanonicalTags(tags) ==
    /\ \A i \in 1..(Len(tags) - 1) : StrLess(tags[i], tags[i + 1])
    /\ \A i \in 1..Len(tags) :
          /\ tags[i] # <<>>
          /\ \A j \in 1..Len(tags[i]) : tags[i][j] \notin {"A", "B"}

ValidUTF8(str) == \A i \in 1..Len(str) : str[i] \notin InvalidBytes

\* semantically identical inputs get one canonical form and one id, and the
\* canonical tag list is sorted, duplicate-free, lowercase, without empties
NormDeterministic ==
    /\ SameInput(fnIn.a, fnIn.b) => fnOut.ra = fnOut.rb
    /\ CanonicalTags(fnOut.ra.c.tags)
    /\ Range(fnOut.ra.c.tags) = TagSetOf(fnIn.a.tags)

OuterTrimmed(str) ==
    LET keep == {i \in 1..Len(str) : ~IsSpace(str[i])}
    IN  IF keep = {} THEN <<>>
        ELSE LET lo == CHOOSE i \in keep : \A j \in keep : i <= j
                 hi == CHOOSE i \in keep : \A j \in keep : j <= i
             IN  [k \in 1..(hi - lo + 1) |-> str[lo + k - 1]]

RECURSIVE Words(_, _)
Words(str, cur) ==
    IF str = <<>> THEN (IF cur = <<>> THEN <<>> ELSE <<cur>>)
    ELSE IF IsSpace(Head(str))
         THEN (IF cur = <<>> THEN <<>> ELSE <<cur>>) \o Words(Tail(str), <<>>)
         ELSE Words(Tail(str), Append(cur, Head(str)))

RECURSIVE JoinWords(_)
JoinWords(ws) ==
    IF ws = <<>> THEN <<>>
    ELSE IF Len(ws) = 1 THEN ws[1]
    ELSE ws[1] \o <<" ">> \o JoinWords(Tail(ws))

\* C15: the canonical text is the words of the input joined by single
\* spaces, so inputs whose texts differ only in the amount of white space
\* (and agree otherwise) get the same canonical text and the same id.
C15_CollapseWhitespace ==
    fnOut.done =>
        /\ fnOut.ra.c.text = JoinWords(Words(fnIn.a.text, <<>>))
        /\ (/\ Words(fnIn.a.text, <<>>) = Words(fnIn.b.text, <<>>)
            /\ TagSetOf(fnIn.a.tags) = TagSetOf(fnIn.b.tags)
            /\ fnIn.a.priority = fnIn.b.priority /\ fnIn.a.est = fnIn.b.est) =>
              fnOut.ra.c.text = fnOut.rb.c.text /\ fnOut.ra.id = fnOut.rb.id

\* every tag of every stored entity lists the entity's id
IndexComplete ==
    \A id \in DOMAIN tasksKV :
        \A tag \in Range(tasksKV[id].val.tags) : Contains(IndexIds(tagsKV, tag), id)

\* C16: a Create that inserts the entity returns an error when an index
\* update fails (it returns success only with the id under every tag), the
\* entity stays stored as inserted, and a RebuildIndex that runs without
\* failure afterwards leaves the id of every stored entity under each of
\* its tags.
C16_CreateIndexFailure ==
    \A c \in Clients :
        /\ (Done(c, "create") /\ frame[c].absent0) =>
              /\ KVHas(tasksKV, frame[c].id)
              /\ tasksKV[frame[c].id].val = frame[c].t
              /\ ret[c].err = NoErr => IndexComplete /\ ret[c].task = frame[c].t
              /\ ret[c].err # NoErr => ret[c].task = NoTask /\ ~ret[c].flag
        /\ (Done(c, "rebuild") /\ ~frame[c].outage /\ DOMAIN tasksKV # {}) =>
              ret[c].err = NoErr /\ IndexComplete

\* a Create failed on the index, then a RebuildIndex without outage repaired it
C16_Witness ==
    \E c \in Clients :
        /\ Done(c, "rebuild") /\ ~frame[c].outage
        /\ prev.call.op = "create" /\ prev.absent0 /\ prev.ret.err # NoErr
        /\ \E tag \in Range(tasksKV[IdXab].val.tags) :
              ~Contains(IndexIds(frame[c].snapG, tag), IdXab)
        /\ IndexComplete

\* C17: Update and Delete report an error when an index append or removal
\* fails: when they return success the id has left the entry of every tag
\* the entity lost and is in the entry of every tag it has.
C17_NoSwallowedError ==
    \A c \in Clients :
        /\ (Done(c, "delete") /\ ret[c].err = NoErr) =>
              \A tag \in Range(frame[c].t.tags) : ~Contains(IndexIds(tagsKV, tag), frame[c].id)
        /\ (Done(c, "update") /\ ret[c].err = NoErr) =>
              /\ \A tag \in Range(frame[c].after.tags) :
                    Contains(IndexIds(tagsKV, tag), frame[c].id)
              /\ \A tag \in Range(frame[c].t.tags) \ Range(frame[c].after.tags) :
                    ~Contains(IndexIds(tagsKV, tag), frame[c].id)

\* c has finished a Create that inserted its entity or a Delete that removed
\* it, the entity carries tag, and the entry of tag existed at the call
ChangedEntry(c, tag) ==
    /\ \/ Done(c, "create") /\ frame[c].absent0
       \/ Done(c, "delete")
    /\ tag \in Range(frame[c].t.tags)
    /\ KVHas(frame[c].snapG, tag)

\* two clients have changed the existing entry of tag for different ids,
\* each overlapping only the other
IndexRace(c1, c2, tag) ==
    /\ c1 # c2
    /\ ChangedEntry(c1, tag) /\ ChangedEntry(c2, tag)
    /\ frame[c1].id # frame[c2].id
    /\ conc[c1] = {<<c2, frame[c2].call.op>>}
    /\ conc[c2] = {<<c1, frame[c1].call.op>>}

\* C18: when two clients concurrently change one existing tag entry (two
\* appends of different ids, or an append and a removal), neither fails and
\* the entry afterwards lists every appended id and no removed id.
C18_IndexRace ==
    \A c1, c2 \in Clients : \A tag \in DOMAIN tagsKV :
        IndexRace(c1, c2, tag) =>
            \A c \in {c1, c2} :
                /\ ret[c].err = NoErr
                /\ Done(c, "create") => Contains(IndexIds(tagsKV, tag), frame[c].id)
                /\ Done(c, "delete") => ~Contains(IndexIds(tagsKV, tag), frame[c].id)

\* the ids the entry of a tag lists, as a set
Listed(tag) == Range(IndexIds(tagsKV, ToLower(TrimSpace(tag))))

\* the ids the index gives for Query(any, all): the union over any (every
\* stored id when any is empty), cut down by every tag of all
QueryIds(any, all) ==
    {id \in (IF TagSetOf(any) = {} THEN DOMAIN tasksKV
             ELSE UNION {Listed(tag) : tag \in TagSetOf(any)}) :
        \A tag \in TagSetOf(all) : id \in Listed(tag)}

Stored(ids) == {tasksKV[id].val : id \in ids \cap DOMAIN tasksKV}

\* some id of ids has no stored entity
HasStale(ids) == ids \ DOMAIN tasksKV # {}

C19_WitnessQuery ==
    \E c \in Clients :
        /\ Done(c, "query") /\ frame[c].call.any # <<>>
        /\ HasStale(QueryIds(frame[c].call.any, frame[c].call.all))
        /\ Len(ret[c].tasks) >= 1

\* the lines of the text under check, and which of them are not blank
TextLines == SplitLines(fnIn.text)

NonBlank == {i \in 1..Len(TextLines) : \E j \in 1..Len(TextLines[i]) : ~IsSpace(TextLines[i][j])}

LastNonBlank == CHOOSE i \in NonBlank : \A j \in NonBlank : j <= i

\* the first line of the run of non-blank lines that ends at the last non-blank line
RunStart == CHOOSE i \in NonBlank : /\ (i..LastNonBlank) \subseteq NonBlank
                                     /\ (i = 1 \/ (i - 1) \notin NonBlank)

\* a blank line precedes the trailing run
HasRegion == NonBlank # {} /\ RunStart > 1

\* lines lo..hi without the blank lines at both ends, joined
TrimmedBody(lo, hi) ==
    LET keep == NonBlank \cap (lo..hi)
    IN  IF keep = {} THEN <<>>
        ELSE LET f == CHOOSE i \in keep : \A j \in keep : i <= j
                 l == CHOOSE i \in keep : \A j \in keep : j <= i
             IN  JoinLines(SubSeq(TextLines, f, l))

\* C20: the trailer region is the run of non-blank lines that ends at the
\* last non-blank line, and exists only when a blank line precedes it;
\* Details is the lines after the title without the region, trimmed of blank
\* lines at both ends; without a region there are no trailers and no drops
\* and Details is every line after the title, trimmed of blank lines.
C20_Details ==
    fnOut.done =>
        /\ HasRegion =>
              /\ fnOut.bounds = [end |-> LastNonBlank, start |-> RunStart - 1]
              /\ fnOut.details = TrimmedBody(2, RunStart - 1)
              /\ Len(fnOut.trailers) + Len(fnOut.drops) = LastNonBlank - RunStart + 1
        /\ ~HasRegion =>
              /\ fnOut.bounds = [end |-> Len(TextLines), start |-> Len(TextLines)]
              /\ fnOut.trailers = <<>> /\ fnOut.drops = <<>>
              /\ fnOut.details = TrimmedBody(2, Len(TextLines))

\* a title, a body line, a blank line and a one-line region
C20_Witness ==
    /\ fnOut.done
    /\ HasRegion
    /\ fnOut.details # <<>>
    /\ Len(fnOut.trailers) + Len(fnOut.drops) = 1

\* a body that runs to the end of the text: no region
C20_WitnessNoRegion ==
    /\ fnOut.done
    /\ ~HasRegion
    /\ Len(TextLines) = 3
    /\ fnOut.details = <<"k", "\n", ":">>

\* C21: the tags of every stored entity are sorted, duplicate-free,
\* lowercase and without the empty tag.
C21_StoredTagsCanonical ==
    \A id \in DOMAIN tasksKV : CanonicalTags(tasksKV[id].val.tags)

\* an index value without a blank line and without a repeated line (the
\* empty value lists nothing)
CleanEntry(val) ==
    \/ val = <<>>
    \/ LET lines == SplitLines(val)
       IN  /\ \A i \in 1..Len(lines) : \E j \in 1..Len(lines[i]) : ~IsSpace(lines[i][j])
           /\ \A i, j \in 1..Len(lines) : i # j => lines[i] # lines[j]

\* C22: whatever the clients interleave, no index entry lists an id twice
\* and no entry has a blank line.
C22_EntriesClean ==
    \A tag \in DOMAIN tagsKV : CleanEntry(tagsKV[tag].val)

\* a Create that found its id already listed by a RebuildIndex running beside it
C22_Witness ==
    \E c \in Clients :
        /\ Done(c, "create") /\ ret[c].err = NoErr /\ ~ret[c].flag
        /\ \E d \in Clients : <<d, "rebuild">> \in conc[c]
        /\ KVHas(tagsKV, <<"a">>)
        /\ Len(SplitLines(tagsKV[<<"a">>].val)) = 2

\* the tags and the ids of the calls of MixCalls
MixTags == {<<"a">>, <<"b">>}

MixIds == {IdXa, IdYa}

\* the most substrate calls an operation of MixCalls makes: CreateTask one
\* insert and then either one fetch or two calls per tag; UpdateTask and
\* DeleteTask a fetch, a write and two calls per tag added or removed;
\* RebuildIndex two key listings, a fetch per task key and a delete or a
\* put per tag key
SubstrateCallBound(call) ==
    CASE call.op = "create" ->
           LET n == Len(NormalizeInput(call.in).c.tags)
           IN  IF n = 0 THEN 2 ELSE 1 + 2 * n
      [] call.op \in {"update", "delete"} -> 2 + 2 * Cardinality(MixTags)
      [] call.op \in {"close", "reopen"} -> 2
      [] call.op = "rebuild" -> 2 + Cardinality(MixIds) + Cardinality(MixTags)

\* C23: under every interleaving an operation makes a bounded number of
\* substrate calls (no call is retried, appendTagID does not run again for
\* a tag it has handled), then returns
C23_BoundedCalls ==
    \A c \in Clients :
        pc[c] # "idle" => frame[c].calls <= SubstrateCallBound(frame[c].call)

\* a Create that lost the insert of the tag key to the other client's
\* Create returned after its three calls
C23_Witness ==
    \E c \in Clients :
        /\ Done(c, "create") /\ ret[c].err = NoErr /\ frame[c].absent0
        /\ frame[c].calls = SubstrateCallBound(frame[c].call)
        /\ \E d \in Clients : conc[c] = {<<d, "create">>} /\ frame[d].call.op = "create"
        /\ KVHas(tagsKV, <<"a">>)
        /\ ~HasLine(tagsKV[<<"a">>].val, NormalizeInput(frame[c].call.in).id)

\* two Creates of distinct tasks that ran beside each other, each called
\* while the index had no entry for tag and each returned success
TagKeyRace(c1, c2, tag) ==
    /\ c1 # c2
    /\ \A c \in {c1, c2} :
          /\ Done(c, "create") /\ frame[c].absent0 /\ ret[c].err = NoErr
          /\ tag \in Range(frame[c].t.tags)
          /\ ~KVHas(frame[c].snapG, tag)
    /\ frame[c1].id # frame[c2].id
    /\ conc[c1] = {<<c2, "create">>}
    /\ conc[c2] = {<<c1, "create">>}

\* C24: after two racing Creates of distinct tasks that share a tag without
\* an entry have both returned success, the entry of the tag lists both ids.
C24_TagKeyRace ==
    \A c1, c2 \in Clients : \A tag \in {<<"a">>} :
        TagKeyRace(c1, c2, tag) =>
            /\ KVHas(tagsKV, tag)
            /\ Contains(IndexIds(tagsKV, tag), frame[c1].id)
            /\ Contains(IndexIds(tagsKV, tag), frame[c2].id)

\* C25: a successful Update keeps every field its set leaves unset; Update,
\* Close and Reopen keep id, created and the estimate; Close and Reopen
\* change nothing but done and leave the index as it was.
C25_SparsePatch ==
    \A c \in Clients :
        (pc[c] = "done" /\ frame[c].call.op \in {"update", "close", "reopen"}
            /\ ret[c].err = NoErr) =>
            LET id == frame[c].call.id
                was == frame[c].snapT[id].val
                now == tasksKV[id].val
            IN  /\ KVHas(tasksKV, id)
                /\ ret[c].task = now
                /\ now.id = was.id /\ now.created = was.created /\ now.est = was.est
                /\ frame[c].call.op = "update" =>
                      LET set == frame[c].call.set
                      IN  /\ set.text = Nil => now.text = was.text
                          /\ set.done = Nil => now.done = was.done
                          /\ set.tags = Nil => now.tags = was.tags
                          /\ set.priority = Nil => now.priority = was.priority
                /\ frame[c].call.op \in {"close", "reopen"} =>
                      /\ now = [was EXCEPT !.done = (frame[c].call.op = "close")]
                      /\ tagsKV = frame[c].snapG

\* an Update of the tags alone of a closed task with an estimate
C25_Witness ==
    \E c \in Clients :
        /\ Done(c, "update") /\ ret[c].err = NoErr
        /\ frame[c].call.set.text = Nil /\ frame[c].call.set.done = Nil
        /\ frame[c].call.set.tags # Nil
        /\ LET was == frame[c].snapT[frame[c].call.id].val
           IN  /\ was.done /\ was.est # 0 /\ was.text # <<>>
               /\ tasksKV[frame[c].call.id].val.tags # was.tags

\* a Close that changed done of a task with tags and an estimate
C25_WitnessClose ==
    \E c \in Clients :
        /\ Done(c, "close") /\ ret[c].err = NoErr /\ ret[c].flag
        /\ tasksKV[frame[c].call.id].val.est # 0
        /\ tasksKV[frame[c].call.id].val.tags # <<>>

\* C26: a Create of an id that is stored leaves both buckets as they were
\* and returns the stored entity with existed=true.
C26_CreateExisting ==
    \A c \in Clients :
        (Done(c, "create") /\ ~frame[c].absent0) =>
            /\ ret[c].err = NoErr /\ ret[c].flag
            /\ tasksKV = frame[c].snapT
            /\ tagsKV = frame[c].snapG
            /\ ret[c].task = frame[c].snapT[frame[c].id].val

\* the stored entity was closed and given other tags since its creation at
\* another time
C26_Witness ==
    \E c \in Clients :
        /\ Done(c, "create") /\ ~frame[c].absent0
        /\ ret[c].task.done
        /\ ret[c].task.tags # frame[c].t.tags
        /\ ret[c].task.created # frame[c].t.created

\* C27: Query returns min(limit, m) of the m stored entities of the
\* matching ids when limit is positive and all m otherwise, each once.
C27_QueryLimit ==
    \A c \in Clients :
        Done(c, "query") =>
            LET matching == Stored(QueryIds(frame[c].call.any, frame[c].call.all))
                m == Cardinality(matching)
                limit == frame[c].call.limit
            IN  /\ Range(ret[c].tasks) \subseteq matching
                /\ Len(ret[c].tasks) = Cardinality(Range(ret[c].tasks))
                /\ Len(ret[c].tasks) = IF limit > 0 /\ limit < m THEN limit ELSE m

\* a Query with limit 1 over two matching entities and a stale id
C27_Witness ==
    \E c \in Clients :
        /\ Done(c, "query") /\ frame[c].call.limit = 1 /\ ret[c].err = NoErr
        /\ HasStale(QueryIds(frame[c].call.any, frame[c].call.all))
        /\ Cardinality(Stored(QueryIds(frame[c].call.any, frame[c].call.all))) = 2
        /\ Len(ret[c].tasks) = 1

\* the lines of the trailer region, top to bottom
RegionLines == IF HasRegion THEN SubSeq(TextLines, RunStart, LastNonBlank) ELSE <<>>

\* a colon of line with a non-empty run of key characters before it (the
\* first colon: a colon is no key character)
KeyColons(line) ==
    {i \in 2..Len(line) : line[i] = ":" /\ \A j \in 1..(i - 1) : line[j] \in KeyChars}

IsTrailerLine(line) == KeyColons(line) # {}

IsDropLine(line) == ~IsTrailerLine(line) /\ \E j \in 1..Len(line) : ~IsSpace(line[j])

RECURSIVE DropLeadingBlanks(_)
DropLeadingBlanks(str) ==
    IF str # <<>> /\ Head(str) \in {" ", "\t"} THEN DropLeadingBlanks(Tail(str)) ELSE str

TrailerOf(line) ==
    LET i == CHOOSE x \in KeyColons(line) : TRUE
    IN  [Key |-> SubSeq(line, 1, i - 1),
         Value |-> DropLeadingBlanks(SubSeq(line, i + 1, Len(line)))]

\* C28: Trailers() is the region's lines that have a non-empty key of
\* letters, digits and hyphens before their first colon, as key and value,
\* top to bottom; TrailerDrops() is its other non-blank lines, top to
\* bottom; together they are as many as the region has lines.
C28_Classified ==
    fnOut.done =>
        LET kept == SelectSeq(RegionLines, IsTrailerLine)
        IN  /\ fnOut.trailers = [i \in 1..Len(kept) |-> TrailerOf(kept[i])]
            /\ fnOut.drops = SelectSeq(RegionLines, IsDropLine)
            /\ Len(fnOut.trailers) + Len(fnOut.drops) = Len(RegionLines)

\* a region of two trailers that differ
C28_Witness ==
    /\ fnOut.done
    /\ HasRegion
    /\ Len(fnOut.trailers) = 2
    /\ fnOut.trailers[1] # fnOut.trailers[2]

\* a region of the trailer "k: k", whose value loses the space, and the
\* drop ":"
C28_WitnessDrops ==
    /\ fnOut.done
    /\ RegionLines = << <<"k", ":", " ", "k">>, <<":">> >>
    /\ fnOut.trailers = << [Key |-> <<"k">>, Value |-> <<"k">>] >>
    /\ fnOut.drops = << <<":">> >>

\* C29: between the calls of a sequential run without substrate failure an
\* id is listed in the entry of a tag exactly when an entity with that id is
\* stored and carries the tag.
C29_IndexExact ==
    (\A c \in Clients : ~InFlight(c)) =>
        \A tag \in (DOMAIN tagsKV) \cup TagsInUse :
            \A id \in (DOMAIN tasksKV) \cup Range(IndexIds(tagsKV, tag)) :
                Contains(IndexIds(tagsKV, tag), id)
                    <=> (KVHas(tasksKV, id) /\ Contains(tasksKV[id].val.tags, tag))

\* after an Update of the tags from a, b to c, b: the entry of a is empty
\* and the entries of b and c list the id
C29_Witness ==
    \E c \in Clients :
        /\ Done(c, "update") /\ ret[c].err = NoErr
        /\ KVHas(tagsKV, <<"a">>) /\ tagsKV[<<"a">>].val = <<>>
        /\ Tagged(<<"b">>) = {frame[c].id}
        /\ Tagged(<<"c">>) = {frame[c].id}

\* the write of an Update, Close or Reopen that fetched the entity before a
\* Delete removed it
LateWrite(c) ==
    /\ pc[c] \in {"update_put", "close_put", "reopen_put"}
    /\ pc'[c] # pc[c]
    /\ ~KVHas(tasksKV, frame[c].id)

\* C30: the write of an Update, Close or Reopen whose entity a Delete has
\* removed since the fetch fails, and the key stays absent.
C30_NoResurrection ==
    [][\A c \in Clients :
          LateWrite(c) => (~KVHas(tasksKV', frame[c].id) /\ ret'[c].err # NoErr)]_vars

\* a Query with limit 2 that found a single entity to return
C27_WitnessFew ==
    \E c \in Clients :
        /\ Done(c, "query") /\ frame[c].call.limit = 2 /\ ret[c].err = NoErr
        /\ HasStale(QueryIds(frame[c].call.any, frame[c].call.all))
        /\ Len(ret[c].tasks) = 1

\* what ListTags returned is the number of stored entities under each tag
\* key; it fails only when the index has no key
TagCounts ==
    \A c \in Clients :
        Done(c, "listtags") =>
            /\ ret[c].err # NoErr => DOMAIN tagsKV = {}
            /\ (ret[c].err = NoErr /\ IndexConsistent) =>
                  /\ DOMAIN ret[c].counts = DOMAIN tagsKV
                  /\ TagsInUse \subseteq DOMAIN ret[c].counts
                  /\ \A tag \in DOMAIN tagsKV :
                        ret[c].counts[tag] = Cardinality(Tagged(tag))

\* a Delete or an Update that took a tag from its last entity left the key
\* of the tag with the empty value
EmptiedKept ==
    \A c \in Clients :
        (pc[c] = "done" /\ frame[c].call.op \in {"delete", "update"} /\ ret[c].err = NoErr) =>
            \A tag \in Range(frame[c].snapT[frame[c].call.id].val.tags) \ TagsInUse :
                KVHas(tagsKV, tag) /\ tagsKV[tag].val = <<>>

\* no step but the Delete of RebuildIndex removes a tag key
KeysKept ==
    \/ DOMAIN tagsKV \subseteq DOMAIN tagsKV'
    \/ \E c \in Clients : pc[c] = "rebuild_delete"

\* C31: with a consistent index ListTags maps each tag key to the number of
\* stored entities carrying the tag; a tag that lost its last entity keeps
\* its key with the empty value, counted 0, until RebuildIndex deletes it.
C31_ListTags == [][TagCounts' /\ EmptiedKept' /\ KeysKept]_vars

\* ListTags after a retag: tag a is counted 0, tag b is counted 1
C31_Witness ==
    \E c \in Clients :
        /\ Done(c, "listtags") /\ ret[c].err = NoErr
        /\ DOMAIN ret[c].counts = {<<"a">>, <<"b">>}
        /\ ret[c].counts[<<"a">>] = 0
        /\ ret[c].counts[<<"b">>] = 1

\* ListTags with two entities under one tag
C31_WitnessTwo ==
    \E c \in Clients :
        /\ Done(c, "listtags") /\ ret[c].err = NoErr
        /\ ret[c].counts = WithCount(<<>>, <<"a">>, 2)

IsNonBlankLine(line) == \E j \in 1..Len(line) : ~IsSpace(line[j])

IsPlainLine(line) == ~IsTrailerLine(line)

\* the non-blank lines after the title line, top to bottom
BodyLines == SelectSeq(Tail(TextLines), IsNonBlankLine)

\* the first p of lines are the non-blank lines of Details, the trailer
\* lines of the rest are Trailers and its other lines are TrailerDrops
ReportedOnce(lines, p) ==
    LET rest == SubSeq(lines, p + 1, Len(lines))
        kept == SelectSeq(rest, IsTrailerLine)
    IN  /\ SubSeq(lines, 1, p) =
              (IF fnOut.details = <<>> THEN <<>>
               ELSE SelectSeq(SplitLines(fnOut.details), IsNonBlankLine))
        /\ fnOut.trailers = [i \in 1..Len(kept) |-> TrailerOf(kept[i])]
        /\ fnOut.drops = SelectSeq(rest, IsPlainLine)

\* C32: the trailer region starts after the title line, and the non-blank
\* lines after the title are, in order and each once, the non-blank lines
\* of Details followed by the lines behind Trailers and TrailerDrops.
C32_NoLineLost ==
    fnOut.done =>
        /\ fnOut.bounds.start >= 1
        /\ \E p \in 0..Len(BodyLines) : ReportedOnce(BodyLines, p)
        /\ Len(BodyLines) =
              Len(fnOut.trailers) + Len(fnOut.drops)
              + (IF fnOut.details = <<>> THEN 0
                 ELSE Len(SelectSeq(SplitLines(fnOut.details), IsNonBlankLine)))

\* a title, a body line, a blank line and one trailer
C32_Witness ==
    /\ fnOut.done
    /\ IsNonBlankLine(TextLines[1])
    /\ fnOut.details = <<"k">>
    /\ Len(fnOut.trailers) = 1 /\ fnOut.drops = <<>>
    /\ fnOut.bounds.start = 3

\* a blank title line right above the region
C32_WitnessBlankTitle ==
    /\ fnOut.done
    /\ ~IsNonBlankLine(TextLines[1])
    /\ fnOut.bounds.start = 1 /\ fnOut.bounds.end = 3
    /\ fnOut.details = <<>>
    /\ Len(fnOut.trailers) = 1 /\ Len(fnOut.drops) = 1

====
